---- MODULE Spec2Model ----
(***************************************************************************)
(* A model of dissect.btrfs: the file-extent stream (INode.open and        *)
(* ExtentStream), the logical chunk stream with RAID stripe selection and  *)
(* mirror failover (ChunkStream), and path resolution (Subvolume.get).     *)
(*                                                                         *)
(* Each subsystem has its own specification over the shared variables:     *)
(*   SpecExtent  - one inode of an image is opened and its stream read     *)
(*   SpecChunk   - chunks are added to a ChunkStream                       *)
(*   SpecStripe  - one chunk is added and the logical stream is read       *)
(*   SpecPath    - paths are resolved on an image with a nested subvolume  *)
(*   SpecCursor  - a cursor is moved over a B-tree                         *)
(*   SpecSubvol  - the subvolumes of a root tree are enumerated            *)
(*   SpecDir     - the entries of a directory are iterated                 *)
(*   SpecOpen    - a filesystem is opened from a list of superblocks       *)
(*   SpecLayout  - chunks are added and the logical stream is read         *)
(*   SpecExtentList - SpecExtent with items that map no bytes              *)
(*   SpecSearch  - a cursor is searched wherever it stands                 *)
(*   SpecLookup  - paths are resolved and the tree searches recorded       *)
(*   SpecChunkAny - chunks of any placement are added                      *)
(***************************************************************************)
EXTENDS Integers, Sequences, FiniteSets, TLC

VARIABLES
    inode,          \* the inode under test: [size, items] (EXTENT_DATA items in key order)
    stream,         \* what INode.open() returned
    pos,            \* AlignedStream._pos of that stream
    out,            \* all bytes the reads have returned so far
    devices,        \* Btrfs.devices: the devids that were opened
    chunks,         \* ChunkStream.chunks
    chunk_offsets,  \* ChunkStream._chunk_offsets
    addResult,      \* outcome of the last ChunkStream.add call
    openFailed,     \* an add raised Error during Btrfs.__init__
    rd,             \* the last ChunkStream.add or _read call, with the result of a read
    req,            \* the last request to the filesystem (a path lookup, an open, a listing)
    res,            \* its result
    btree,          \* the B-tree a cursor works on: its root node
    cursor,         \* Cursor: _path, _node (with its header) and _index
    ret             \* the last cursor call and what it returned, yielded or raised

vars == <<inode, stream, pos, out, devices, chunks, chunk_offsets, addResult,
          openFailed, rd, req, res, btree, cursor, ret>>

extentVars == <<inode, stream, pos, out>>
chunkVars == <<devices, chunks, chunk_offsets, addResult, openFailed, rd>>
pathVars == <<req, res>>
treeVars == <<btree, cursor, ret>>

Min(a, b) == IF a < b THEN a ELSE b
Max(a, b) == IF a > b THEN a ELSE b

\* Python's s[a:b]: a negative bound counts from the end, both are clamped
SliceBound(s, x) == IF x < 0 THEN Max(x + Len(s), 0) ELSE Min(x, Len(s))

PySlice(s, a, b) == SubSeq(s, SliceBound(s, a) + 1, SliceBound(s, b))

RECURSIVE SeqSum(_)
SeqSum(s) == IF s = <<>> THEN 0 ELSE Head(s) + SeqSum(Tail(s))

\* bisect.bisect_right on an ascending list: the number of elements <= x
BisectRight(s, x) == Cardinality({i \in 1..Len(s) : s[i] <= x})

(***************************************************************************)
(* Bytes are modelled by where they come from.                             *)
(***************************************************************************)
ZeroByte == <<"zero", 0, 0>>
LogicalByte(addr) == <<"logical", addr, 0>>        \* byte at a logical address
DecodedByte(doff, i) == <<"decoded", doff, i>>     \* byte i of the decoded extent stored at doff
InlineByte(i) == <<"inline", 0, i>>                \* byte i of the decoded inline data

Zeros(n) == [i \in 1..Max(n, 0) |-> ZeroByte]

(***************************************************************************)
(* Bounds of the extent model.                                             *)
(***************************************************************************)
SectorSize == 2
MaxItems == 2
BufferAlign == 4

BTRFS_COMPRESS_NONE == 0
BTRFS_COMPRESS_ZLIB == 1

INLINE == "INLINE"
REG == "REG"
PREALLOC == "PREALLOC"

DiskBase(i) == 100 * i

(***************************************************************************)
(* The images: the EXTENT_DATA items of one inode, as cursor.iter yields   *)
(* them (ascending key offset), and the inode's size.  Items do not        *)
(* overlap, key offsets and lengths are sector aligned, every REG item     *)
(* starts below the end of file and ends at most at the end of file        *)
(* rounded up to the sector size.  PREALLOC items may lie anywhere.        *)
(***************************************************************************)
\* <<variant, length in sectors, sectors left free before the item>>
Shapes == { <<"reg", 1, 0>>, <<"reg", 1, 1>>, <<"reg", 2, 1>>, <<"regoff", 1, 0>>,
            <<"regoff", 1, 1>>, <<"zlib", 2, 0>>, <<"zlibmid", 1, 1>>, <<"hole", 1, 0>>,
            <<"prealloc", 1, 0>>, <<"prealloc", 2, 1>> }

MakeItem(i, koff, n, v) ==
    [ koff           |-> koff,
      type           |-> IF v = "prealloc" THEN PREALLOC ELSE REG,
      compression    |-> IF v \in {"zlib", "zlibmid"} THEN BTRFS_COMPRESS_ZLIB
                         ELSE BTRFS_COMPRESS_NONE,
      encryption     |-> 0,
      disk_bytenr    |-> IF v = "hole" THEN 0 ELSE DiskBase(i),
      disk_num_bytes |-> IF v = "hole" THEN 0
                         ELSE IF v \in {"zlib", "zlibmid"} THEN SectorSize
                         ELSE IF v = "regoff" THEN (n + 1) * SectorSize
                         ELSE n * SectorSize,
      offset         |-> IF v \in {"regoff", "zlibmid"} THEN SectorSize ELSE 0,
      num_bytes      |-> n * SectorSize,
      ram            |-> IF v = "zlibmid" THEN (n + 2) * SectorSize
                         ELSE IF v = "regoff" THEN (n + 1) * SectorSize
                         ELSE n * SectorSize ]

ItemEnd(it) == it.koff + it.num_bytes

SeqEnd(s) == IF s = <<>> THEN 0 ELSE ItemEnd(s[Len(s)])

RECURSIVE ItemSeqs(_)
ItemSeqs(n) ==
    IF n = 0 THEN {<<>>}
    ELSE LET prev == ItemSeqs(n - 1)
         IN prev \cup
            { Append(s, MakeItem(Len(s) + 1, SeqEnd(s) + sh[3] * SectorSize, sh[2], sh[1])) :
                <<s, sh>> \in { t \in prev \X Shapes : Len(t[1]) = n - 1 } }

RegIndexes(items) == {i \in 1..Len(items) : items[i].type = REG}

\* end of the last REG item, 0 when there is none
LastRegEnd(items) ==
    IF RegIndexes(items) = {} THEN 0
    ELSE ItemEnd(items[CHOOSE i \in RegIndexes(items) : \A j \in RegIndexes(items) : j <= i])

RoundUp(x, a) == ((x + a - 1) \div a) * a

WellFormedSize(items, size) ==
    /\ \A i \in RegIndexes(items) : items[i].koff < size
    /\ LastRegEnd(items) <= RoundUp(size, SectorSize)

RegularInodes ==
    { [size |-> sz, items |-> its] :
        <<its, sz>> \in { t \in ItemSeqs(MaxItems) \X (0..((MaxItems * 3 + 1) * SectorSize)) :
                            /\ WellFormedSize(t[1], t[2])
                            /\ t[2] <= SeqEnd(t[1]) + SectorSize } }

\* An inline file: one INLINE item at key offset 0.  The decoded data is as long
\* as the file, or longer when a compressed inline file was truncated.
InlineItem(comp, ram) ==
    [ koff |-> 0, type |-> INLINE, compression |-> comp, encryption |-> 0,
      disk_bytenr |-> 0, disk_num_bytes |-> 0, offset |-> 0, num_bytes |-> 0,
      ram |-> ram ]

InlineInodes ==
    { [size |-> sz, items |-> <<InlineItem(c, sz + x)>>] :
        <<sz, c, x>> \in { t \in (1..(2 * SectorSize)) \X {BTRFS_COMPRESS_NONE, BTRFS_COMPRESS_ZLIB} \X {0, 1} :
                             t[3] = 1 => t[2] = BTRFS_COMPRESS_ZLIB } }

Inodes == RegularInodes \cup InlineInodes

(***************************************************************************)
(* INode.open                                                              *)
(***************************************************************************)
Extent(c, e, doff, dlen, off, len) ==
    [ compression |-> c, encryption |-> e, disk_offset |-> doff,
      disk_length |-> dlen, offset |-> off, length |-> len ]

SparseExtent(len) == Extent(0, 0, 0, 0, 0, len)

\* decode_extent: the decoded buffer of the inline payload.  Encryption raises.
DecodeInline(it) ==
    IF it.encryption /= 0 THEN [err |-> "NotImplementedError", buf |-> <<>>]
    ELSE [err |-> "", buf |-> [i \in 1..it.ram |-> InlineByte(i - 1)]]

\* (mutant) the record's length taken from the on-disk length
ItemExtentDiskLength(it) ==
    Extent(it.compression, it.encryption, it.disk_bytenr, it.disk_num_bytes,
           it.offset, it.disk_num_bytes)

\* The record an EXTENT_DATA item of type REG contributes
ItemExtent(it) ==
    Extent(it.compression, it.encryption, it.disk_bytenr, it.disk_num_bytes,
           it.offset, it.num_bytes)

\* (mutant) PREALLOC items add a record as well
AddsRecordPrealloc(it) == it.type \in {REG, PREALLOC}

\* `if extent.type == BTRFS_FILE_EXTENT_REG`: the items that add a record
AddsRecord(it) == it.type = REG

\* (mutant) the gap measured from the start of the file
GapBeforeFromZero(offset, it) ==
    IF offset < it.koff THEN <<SparseExtent(it.koff)>> ELSE <<>>

\* `if offset < key.offset`: the sparse extent put before an item's record
GapBefore(offset, it) ==
    IF offset < it.koff THEN <<SparseExtent(it.koff - offset)>> ELSE <<>>

\* (mutant) no trailing sparse extent
TrailingGapNone(offset, size) == <<>>

\* `if offset < self.size`: the sparse extent appended after the last item
TrailingGap(offset, size) ==
    IF offset < size THEN <<SparseExtent(size - offset)>> ELSE <<>>

\* The loop over cursor.iter(inum, EXTENT_DATA_KEY, 0, ignore_offset=True).
\* inline = the index of the INLINE item the loop returned on (0: none).
RECURSIVE OpenLoop(_, _, _, _)
OpenLoop(items, i, offset, extents) ==
    IF i > Len(items) THEN [inline |-> 0, offset |-> offset, extents |-> extents]
    ELSE LET it == items[i] IN
         IF it.type = INLINE THEN [inline |-> i, offset |-> offset, extents |-> extents]
         ELSE IF AddsRecord(it)
              THEN LET gap == GapBefore(offset, it)
                       o2 == offset + SeqSum([k \in 1..Len(gap) |-> gap[k].length])
                   IN OpenLoop(items, i + 1, o2 + it.num_bytes,
                               extents \o gap \o <<ItemExtent(it)>>)
              ELSE OpenLoop(items, i + 1, offset, extents)

\* ExtentStream.__init__: the cumulative start of every extent but those at 0
RECURSIVE ExtentOffsets(_, _, _)
ExtentOffsets(extents, i, offset) ==
    IF i > Len(extents) THEN <<>>
    ELSE (IF offset /= 0 THEN <<offset>> ELSE <<>>)
         \o ExtentOffsets(extents, i + 1, offset + extents[i].length)

NoStream == [kind |-> "none", size |-> 0, align |-> 1, buf |-> <<>>,
             extents |-> <<>>, extent_offsets |-> <<>>, err |-> ""]

BufferedStream(buf, size) ==
    [kind |-> "buffered", size |-> size, align |-> BufferAlign, buf |-> buf,
     extents |-> <<>>, extent_offsets |-> <<>>, err |-> ""]

ExtentStream(extents, size) ==
    [kind |-> "extent", size |-> size, align |-> SectorSize, buf |-> <<>>,
     extents |-> extents, extent_offsets |-> ExtentOffsets(extents, 1, 0), err |-> ""]

OpenInode(ino) ==
    IF ino.size = 0 THEN BufferedStream(<<>>, 0)
    ELSE LET r == OpenLoop(ino.items, 1, 0, <<>>) IN
         IF r.inline /= 0
         THEN LET d == DecodeInline(ino.items[r.inline]) IN
              IF d.err /= "" THEN [NoStream EXCEPT !.err = d.err]
              ELSE BufferedStream(d.buf, ino.size)
         ELSE ExtentStream(r.extents \o TrailingGap(r.offset, ino.size), ino.size)

\* INode.extents
InodeExtents(st) == IF st.kind = "extent" THEN st.extents ELSE <<>>

(***************************************************************************)
(* ExtentStream._read and the aligned reads of the stream base class       *)
(***************************************************************************)
\* The logical source (the filesystem's ChunkStream) delivers every byte asked for
LogicalRead(addr, n) == [i \in 1..Max(n, 0) |-> LogicalByte(addr + i - 1)]

\* decode_extent(self._fh.read(extent.disk_length), ...): the decoded whole extent;
\* its length is the ram_bytes of the item stored at that disk address
DecodedExtent(doff) ==
    LET its == {i \in 1..Len(inode.items) : inode.items[i].disk_bytenr = doff}
        n == IF its = {} THEN 0 ELSE inode.items[CHOOSE i \in its : TRUE].ram
    IN [i \in 1..n |-> DecodedByte(doff, i - 1)]

\* The bytes one extent contributes: extent_pos already includes extent.offset
ExtentBytes(extent, extent_pos, read_count) ==
    IF extent.disk_offset = 0 /\ extent.disk_length = 0
    THEN Zeros(read_count)
    ELSE IF extent.compression = BTRFS_COMPRESS_NONE /\ extent.encryption = 0
         THEN LogicalRead(extent.disk_offset + extent_pos, read_count)
         ELSE LET buf == DecodedExtent(extent.disk_offset) IN
              IF extent_pos /= 0 \/ read_count /= Len(buf)
              THEN PySlice(buf, extent_pos, extent_pos + read_count)
              ELSE buf

\* `extent_idx = bisect_right(self._extent_offsets, offset)`
FirstExtentIdx(st, offset) == BisectRight(st.extent_offsets, offset)

\* `read_count = min(size - offset, min(extent_remaining, length))`
ReadCount(size, offset, extent_remaining, length) ==
    Min(size - offset, Min(extent_remaining, length))

RECURSIVE ExtentReadLoop(_, _, _, _, _)
ExtentReadLoop(st, offset, length, extent_idx, result) ==
    IF length <= 0 \/ extent_idx >= Len(st.extents)
    THEN [bytes |-> result, err |-> ""]
    ELSE IF extent_idx /= 0 /\ extent_idx > Len(st.extent_offsets)
    THEN [bytes |-> result, err |-> "IndexError"]
    ELSE LET start == IF extent_idx = 0 THEN 0 ELSE st.extent_offsets[extent_idx]
             extent == st.extents[extent_idx + 1]
             rel == offset - start
             extent_remaining == extent.length - rel
             extent_pos == rel + extent.offset
         IN IF extent_remaining < 0
            THEN [bytes |-> result, err |-> ""]
            ELSE LET read_count == ReadCount(st.size, offset, extent_remaining, length)
                 IN ExtentReadLoop(st, offset + read_count, length - read_count,
                                   extent_idx + 1,
                                   result \o ExtentBytes(extent, extent_pos, read_count))

ExtentStreamRead(st, offset, length) ==
    ExtentReadLoop(st, offset, length, FirstExtentIdx(st, offset), <<>>)

\* The buffered stream over io.BytesIO(buf): at most size - offset bytes of buf
BufferedStreamRead(st, offset, length) ==
    LET read_length == IF st.size /= 0 THEN Min(length, st.size - offset) ELSE length
    IN [bytes |-> PySlice(st.buf, offset, offset + read_length), err |-> ""]

RawRead(st, offset, length) ==
    IF st.kind = "extent" THEN ExtentStreamRead(st, offset, length)
    ELSE BufferedStreamRead(st, offset, length)

\* The stream base class's read(n) at position p: the misaligned start comes from
\* the one-block buffer, whole blocks are read directly, the rest from the buffer.
AlignedRead(st, p, n) ==
    LET remaining == st.size - p
        n1 == IF n = -1 THEN remaining ELSE Min(n, remaining)
    IN IF n1 <= 0 \/ st.size <= p THEN [bytes |-> <<>>, pos |-> p, err |-> ""]
       ELSE
       LET p_align == p - (p % st.align)
           head == IF p /= p_align
                   THEN LET b == RawRead(st, p_align, st.align)
                            bpos == p - p_align
                            blen == Min(n1, st.align - bpos)
                        IN [bytes |-> PySlice(b.bytes, bpos, bpos + blen), n |-> blen, err |-> b.err]
                   ELSE [bytes |-> <<>>, n |-> 0, err |-> ""]
           n2 == n1 - head.n
           p2 == p + head.n
           count == n2 \div st.align
           n3 == IF n2 >= st.align THEN n2 % st.align ELSE n2
           mid == IF n2 >= st.align
                  THEN RawRead(st, p2, count * st.align)
                  ELSE [bytes |-> <<>>, err |-> ""]
           p3 == IF n2 >= st.align THEN p2 + count * st.align ELSE p2
           tail == IF n3 > 0
                   THEN LET b == RawRead(st, p3, st.align)
                        IN [bytes |-> PySlice(b.bytes, 0, n3), err |-> b.err]
                   ELSE [bytes |-> <<>>, err |-> ""]
           e == IF head.err /= "" THEN head.err ELSE IF mid.err /= "" THEN mid.err ELSE tail.err
       IN [bytes |-> head.bytes \o mid.bytes \o tail.bytes, pos |-> p3 + n3, err |-> e]

(***************************************************************************)
(* SpecExtent: open one inode and read its stream from position 0          *)
(***************************************************************************)
ReadSizes == {-1, 1, 3}

IdleChunk ==
    /\ devices = {}
    /\ chunks = <<>>
    /\ chunk_offsets = <<>>
    /\ addResult = "none"
    /\ openFailed = FALSE
    /\ rd = [kind |-> "none"]

IdlePath ==
    /\ req = [kind |-> "none"]
    /\ res = [kind |-> "none"]

\* a node that was never read: Cursor._node of a cursor before its first push
NoNode == [level |-> 0 - 1, keys |-> <<>>, ptrs |-> <<>>]

IdleTree ==
    /\ btree = NoNode
    /\ cursor = [path |-> <<>>, node |-> NoNode, index |-> 0, has_index |-> FALSE]
    /\ ret = [kind |-> "none"]

IdleExtent ==
    /\ inode = [size |-> 0, items |-> <<>>]
    /\ stream = NoStream
    /\ pos = 0
    /\ out = <<>>

InitExtent ==
    /\ inode \in Inodes
    /\ stream = NoStream
    /\ pos = 0
    /\ out = <<>>
    /\ IdleChunk
    /\ IdlePath
    /\ IdleTree

\* fh = inode.open()
Open ==
    /\ stream.kind = "none"
    /\ stream.err = ""
    /\ stream' = OpenInode(inode)
    /\ pos' = 0
    /\ out' = <<>>
    /\ UNCHANGED <<inode, chunkVars, pathVars, treeVars>>

\* fh.read(n)
Read(n) ==
    /\ stream.kind /= "none"
    /\ stream.err = ""
    /\ pos < stream.size
    /\ LET r == AlignedRead(stream, pos, n) IN
         /\ pos' = r.pos
         /\ out' = out \o r.bytes
         /\ stream' = [stream EXCEPT !.err = r.err]
    /\ UNCHANGED <<inode, chunkVars, pathVars, treeVars>>

NextExtent == Open \/ \E n \in ReadSizes : Read(n)

SpecExtent == InitExtent /\ [][NextExtent]_vars

(***************************************************************************)
(* Claims about open() and the extent stream                               *)
(***************************************************************************)
Opened == stream.kind /= "none"

ExtentLengths(extents) == [k \in 1..Len(extents) |-> extents[k].length]

\* file position at which extent k of the list starts
ExtentStart(extents, k) == SeqSum(SubSeq(ExtentLengths(extents), 1, k - 1))

ReadDone == Opened /\ pos >= stream.size

\* C1: reading the stream open() returns from position 0 to its end yields
\* exactly inode.size bytes and no error, whatever the sizes of the single reads;
\* the stream of an inode of size 0 is empty.
C1_ReadReturnsSize ==
    /\ stream.err = ""
    /\ Opened =>
         /\ stream.size = inode.size
         /\ Len(out) = pos
         /\ pos <= inode.size
         /\ Len(out) + Len(AlignedRead(stream, pos, -1).bytes) = inode.size
         /\ ReadDone => Len(out) = inode.size
         /\ inode.size = 0 => AlignedRead(stream, 0, -1).bytes = <<>>

\* a file with a hole, whose last extent ends past the end of file, read to the end
C1_Witness ==
    /\ ReadDone
    /\ stream.kind = "extent"
    /\ Len(stream.extents) >= 3
    /\ SeqSum(ExtentLengths(stream.extents)) > inode.size
    /\ \E k \in 1..Len(stream.extents) : stream.extents[k].compression /= BTRFS_COMPRESS_NONE
    /\ \E k \in 1..Len(stream.extents) : stream.extents[k] = SparseExtent(SectorSize)
    /\ Len(out) = inode.size

\* C2 as stated: the extent lengths of a non-inline inode of size > 0 sum to inode.size
C2_SumEqualsSize ==
    (stream.kind = "extent" /\ inode.size > 0) =>
        SeqSum(ExtentLengths(InodeExtents(stream))) = inode.size

\* C2 amended: the extent lengths sum to the larger of inode.size and the end of
\* the last on-disk (REG) extent, so to at least inode.size and to less than
\* inode.size + sector size
C2_SumCoversSize ==
    (stream.kind = "extent" /\ inode.size > 0) =>
        LET sum == SeqSum(ExtentLengths(InodeExtents(stream))) IN
        /\ sum = Max(inode.size, LastRegEnd(inode.items))
        /\ sum >= inode.size
        /\ sum < inode.size + SectorSize

C2_Witness ==
    /\ stream.kind = "extent"
    /\ inode.size > 0
    /\ Len(stream.extents) >= 2
    /\ SeqSum(ExtentLengths(InodeExtents(stream))) = inode.size + 1

\* the end of the last REG item before item i (the offset assembled so far)
AssembledBefore(items, i) == LastRegEnd(SubSeq(items, 1, i - 1))

\* C3: every REG item's record starts in the list at the file position of its
\* key offset; when the key offset is above the offset assembled so far, the
\* extent right before the record is a sparse extent of exactly the gap length,
\* otherwise no extent is inserted; a trailing sparse extent of length
\* size - assembled ends the list exactly when assembled < size.
C3_GapsAreSparse ==
    stream.kind = "extent" =>
        LET ex == stream.extents
            items == inode.items
            regs == RegIndexes(items)
            gaps == {i \in regs : AssembledBefore(items, i) < items[i].koff}
            trailing == IF LastRegEnd(items) < inode.size THEN 1 ELSE 0
        IN
        /\ \A i \in regs :
             \E k \in 1..Len(ex) :
                /\ ex[k] = ItemExtent(items[i])
                /\ ExtentStart(ex, k) = items[i].koff
                /\ k = Cardinality({j \in regs : j <= i}) + Cardinality({j \in gaps : j <= i})
                /\ i \in gaps =>
                     /\ k > 1
                     /\ ex[k - 1] = SparseExtent(items[i].koff - AssembledBefore(items, i))
        /\ Len(ex) = Cardinality(regs) + Cardinality(gaps) + trailing
        /\ trailing = 1 => ex[Len(ex)] = SparseExtent(inode.size - LastRegEnd(items))

\* a list with a gap that spans a skipped item, a record after it and a trailing gap
C3_Witness ==
    /\ stream.kind = "extent"
    /\ Len(inode.items) = 2
    /\ inode.items[1].type = REG
    /\ inode.items[1].disk_bytenr /= 0
    /\ inode.items[2].type = REG
    /\ inode.items[2].koff > ItemEnd(inode.items[1])
    /\ inode.size > ItemEnd(inode.items[2])
    /\ Len(stream.extents) = 4
    /\ stream.extents[2] = SparseExtent(SectorSize)
    /\ stream.extents[4] = SparseExtent(inode.size - ItemEnd(inode.items[2]))

(***************************************************************************)
(* ChunkStream: chunk records, RAID attributes                             *)
(***************************************************************************)
MaxStripes == 4
MaxChunks == 2
StripeLen == 2
StripesPerChunk == 4

DeviceIds == 1..MaxStripes

\* The profile bits of BTRFS_BLOCK_GROUP; a chunk type is a set of flags
ProfileFlags == {"RAID0", "RAID1", "DUP", "RAID10", "RAID5", "RAID6", "RAID1C3", "RAID1C4"}
BTRFS_BLOCK_GROUP_PROFILE_MASK == ProfileFlags
BTRFS_BLOCK_GROUP_RAID56_MASK == {"RAID5", "RAID6"}
BTRFS_BLOCK_GROUP_RAID1_MASK == {"RAID1", "RAID1C3", "RAID1C4"}
BTRFS_BLOCK_GROUP_STRIPE_MASK == {"RAID0", "RAID10"} \cup BTRFS_BLOCK_GROUP_RAID56_MASK

\* `type & mask` as a truth value
HasFlag(type, mask) == (type \cap mask) /= {}

\* BTRFS_RAID_ATTRIBUTES[profile] = (ncopies, nparity, tolerated_failures)
BTRFS_RAID_ATTRIBUTES(profile) ==
    CASE profile = {}          -> <<1, 0, 0>>
      [] profile = {"RAID0"}   -> <<1, 0, 0>>
      [] profile = {"RAID1"}   -> <<2, 0, 1>>
      [] profile = {"DUP"}     -> <<2, 0, 0>>
      [] profile = {"RAID10"}  -> <<2, 0, 1>>
      [] profile = {"RAID5"}   -> <<1, 1, 1>>
      [] profile = {"RAID6"}   -> <<1, 2, 2>>
      [] profile = {"RAID1C3"} -> <<3, 0, 2>>
      [] profile = {"RAID1C4"} -> <<4, 0, 3>>

\* Where stripe i of a chunk lies on its device
PhysOffset(i) == 100 * i

\* The btrfs_chunk records of the images: a DATA chunk of one profile with n
\* stripes; stripe i lies on device i, the stripes of a DUP chunk on device 1.
ChunkRecord(profile, n, len) ==
    [ length      |-> len,
      stripe_len  |-> StripeLen,
      type        |-> {"DATA"} \cup profile,
      num_stripes |-> n,
      sub_stripes |-> IF profile = {"RAID10"} THEN 2 ELSE 1,
      stripe      |-> [i \in 1..n |->
                         [devid  |-> IF profile = {"DUP"} THEN 1 ELSE i,
                          offset |-> PhysOffset(i)]] ]

Profiles == {{}} \cup {{f} : f \in ProfileFlags}

ChunkRecords ==
    { ChunkRecord(p, n, StripesPerChunk * StripeLen) : p \in Profiles, n \in 1..MaxStripes }

(***************************************************************************)
(* ChunkStream.add                                                         *)
(***************************************************************************)
InsertAt(s, idx, x) == SubSeq(s, 1, idx) \o <<x>> \o SubSeq(s, idx + 1, Len(s))

\* `if chunk_idx > 0: ... existing chunk covers offset: return`
CoveredNever(offset) == FALSE

Covered(offset) ==
    LET chunk_idx == BisectRight(chunk_offsets, offset) IN
    /\ chunk_idx > 0
    /\ chunks[chunk_idx].offset <= offset
    /\ chunks[chunk_idx].offset + chunks[chunk_idx].length > offset

\* the stripes of a record whose device was not opened
MissingStripes(c) == {i \in 1..Len(c.stripe) : c.stripe[i].devid \notin devices}

ToleratedFailures(type) == BTRFS_RAID_ATTRIBUTES(type \cap BTRFS_BLOCK_GROUP_PROFILE_MASK)[3]

\* (mutant) one stripe without device more than tolerated_failures is let through
RECURSIVE StripeLoopRaisesInclusive(_, _, _, _)
StripeLoopRaisesInclusive(c, i, missing_devices, tolerated_failures) ==
    IF i > Len(c.stripe) THEN FALSE
    ELSE IF c.stripe[i].devid \notin devices
         THEN IF missing_devices <= tolerated_failures
              THEN StripeLoopRaisesInclusive(c, i + 1, missing_devices + 1, tolerated_failures)
              ELSE TRUE
         ELSE StripeLoopRaisesInclusive(c, i + 1, missing_devices, tolerated_failures)

\* The loop over chunk.stripe: TRUE when it raises Error (a stripe without
\* device is met after tolerated_failures of them were let through)
RECURSIVE StripeLoopRaises(_, _, _, _)
StripeLoopRaises(c, i, missing_devices, tolerated_failures) ==
    IF i > Len(c.stripe) THEN FALSE
    ELSE IF c.stripe[i].devid \notin devices
         THEN IF missing_devices < tolerated_failures
              THEN StripeLoopRaises(c, i + 1, missing_devices + 1, tolerated_failures)
              ELSE TRUE
         ELSE StripeLoopRaises(c, i + 1, missing_devices, tolerated_failures)

AddRaises(c) == StripeLoopRaises(c, 1, 0, ToleratedFailures(c.type))

\* Chunk(offset, length, stripe_len, type, num_stripes, sub_stripes, data_stripes, stripes)
MakeChunk(offset, c) ==
    LET attrs == BTRFS_RAID_ATTRIBUTES(c.type \cap BTRFS_BLOCK_GROUP_PROFILE_MASK) IN
    [ offset        |-> offset,
      length        |-> c.length,
      stripe_length |-> c.stripe_len,
      type          |-> c.type,
      num_stripes   |-> c.num_stripes,
      sub_stripes   |-> c.sub_stripes,
      data_stripes  |-> (c.num_stripes - attrs[2]) \div attrs[1],
      stripes       |-> [i \in 1..Len(c.stripe) |->
                           [fh     |-> c.stripe[i].devid \in devices,
                            offset |-> c.stripe[i].offset,
                            devid  |-> c.stripe[i].devid]] ]

\* self._logical_fh.add(offset, chunk); room: the model lets the stream grow
Add(offset, c, room) ==
    /\ ~openFailed
    /\ IF Covered(offset)
       THEN /\ addResult' = "covered"
            /\ UNCHANGED <<chunks, chunk_offsets, openFailed>>
       ELSE IF AddRaises(c)
       THEN /\ addResult' = "error"
            /\ openFailed' = TRUE
            /\ UNCHANGED <<chunks, chunk_offsets>>
       ELSE /\ room
            /\ LET idx == BisectRight(chunk_offsets, offset) IN
                 /\ chunk_offsets' = InsertAt(chunk_offsets, idx, offset)
                 /\ chunks' = InsertAt(chunks, idx, MakeChunk(offset, c))
            /\ addResult' = "installed"
            /\ UNCHANGED openFailed
    /\ rd' = [kind |-> "add", offset |-> offset, chunk |-> c]
    /\ UNCHANGED <<devices, extentVars, pathVars, treeVars>>

InitChunk ==
    /\ devices \in (SUBSET DeviceIds) \ {{}}
    /\ chunks = <<>>
    /\ chunk_offsets = <<>>
    /\ addResult = "none"
    /\ openFailed = FALSE
    /\ rd = [kind |-> "none"]
    /\ IdleExtent
    /\ IdlePath
    /\ IdleTree

(***************************************************************************)
(* SpecChunk: several chunks are added, in any order of their offsets      *)
(***************************************************************************)
AddOffsets == {0, 4, 8, 16}

LayoutRecords ==
    { ChunkRecord({}, 1, 2 * StripeLen),
      ChunkRecord({"RAID1"}, 2, 4 * StripeLen),
      ChunkRecord({"RAID0"}, 2, 6 * StripeLen) }

\* the chunk items of an image map disjoint logical ranges: a record is added
\* again at an offset that a chunk covers (the sys_chunk_array and the chunk
\* tree hold the same chunks), or it lies apart from every installed chunk
CoveredBy(chunk, offset) == chunk.offset <= offset /\ offset < chunk.offset + chunk.length

Apart(offset, c) ==
    \A i \in 1..Len(chunks) :
        offset + c.length <= chunks[i].offset \/ chunks[i].offset + chunks[i].length <= offset

WellPlaced(offset, c) ==
    \/ \E i \in 1..Len(chunks) : CoveredBy(chunks[i], offset)
    \/ Apart(offset, c)

NextChunk ==
    \E offset \in AddOffsets, c \in LayoutRecords :
        WellPlaced(offset, c) /\ Add(offset, c, Len(chunks) < MaxChunks)

SpecChunk == InitChunk /\ [][NextChunk]_vars

(***************************************************************************)
(* ChunkStream._read                                                       *)
(***************************************************************************)
\* The stripes of a chunk that hold the same data: all stripes of RAID1,
\* RAID1C3, RAID1C4 and DUP, each run of sub_stripes stripes of RAID10, and
\* every stripe alone otherwise
MirrorGroup(chunk, idx) ==
    IF HasFlag(chunk.type, BTRFS_BLOCK_GROUP_RAID1_MASK \cup {"DUP"}) THEN 0
    ELSE IF HasFlag(chunk.type, {"RAID10"}) THEN idx \div chunk.sub_stripes
    ELSE idx

\* stripe.fh.seek(addr); stripe.fh.read(n): the bytes the image holds on the
\* device of stripe idx, named by the mirror group and the offset in the stripe
DeviceRead(chunk, idx, addr, n) ==
    [i \in 1..Max(n, 0) |->
        <<"data", chunk.offset, MirrorGroup(chunk, idx),
          addr + i - 1 - chunk.stripes[idx + 1].offset>>]

\* Python's // and % for a divisor of either sign
PyFloorDiv(a, b) == IF b > 0 THEN a \div b ELSE (0 - a) \div (0 - b)

\* (mutant) the remainder is dropped
PyModZero(a, b) == 0

PyMod(a, b) == a - b * PyFloorDiv(a, b)

\* _get_stripe_read_info(chunk, offset); err: a division by zero
StripeReadInfo(chunk, offset) ==
    LET sn == offset \div chunk.stripe_length
        stripe_offset == offset % chunk.stripe_length
        divisor ==
            IF HasFlag(chunk.type, {"RAID0"}) THEN chunk.num_stripes
            ELSE IF HasFlag(chunk.type, BTRFS_BLOCK_GROUP_RAID1_MASK) THEN 1
            ELSE IF HasFlag(chunk.type, {"DUP"}) THEN 1
            ELSE IF HasFlag(chunk.type, {"RAID10"})
                 THEN chunk.num_stripes \div chunk.sub_stripes
            ELSE IF HasFlag(chunk.type, BTRFS_BLOCK_GROUP_RAID56_MASK)
                 THEN chunk.data_stripes
            ELSE chunk.num_stripes
        sel ==
            IF divisor = 0 THEN <<0, 0>>
            ELSE IF HasFlag(chunk.type, {"RAID0"})
            THEN <<sn \div chunk.num_stripes, sn % chunk.num_stripes>>
            ELSE IF HasFlag(chunk.type, BTRFS_BLOCK_GROUP_RAID1_MASK)
            THEN <<sn, 0>>
            ELSE IF HasFlag(chunk.type, {"DUP"})
            THEN <<sn, 0>>
            ELSE IF HasFlag(chunk.type, {"RAID10"})
            THEN LET factor == chunk.num_stripes \div chunk.sub_stripes
                 IN <<sn \div factor, sn % factor>>
            ELSE IF HasFlag(chunk.type, BTRFS_BLOCK_GROUP_RAID56_MASK)
            THEN LET num == PyFloorDiv(sn, chunk.data_stripes)
                     idx == PyMod(sn, chunk.data_stripes)
                 IN <<num, (num + idx) % chunk.num_stripes>>
            ELSE <<sn \div chunk.num_stripes, sn % chunk.num_stripes>>
    IN [ err              |-> IF divisor = 0 THEN "ZeroDivisionError" ELSE "",
         stripe_num       |-> sel[1],
         stripe_idx       |-> sel[2],
         stripe_offset    |-> stripe_offset,
         stripe_remaining |-> IF HasFlag(chunk.type, BTRFS_BLOCK_GROUP_STRIPE_MASK)
                              THEN chunk.stripe_length - stripe_offset
                              ELSE chunk.length - offset ]

\* (mutant) RAID5/6 fails over to the next stripe like the mirrored profiles
RECURSIVE FailoverRaid56Next(_, _, _)
FailoverRaid56Next(chunk, stripe_idx, steps) ==
    LET stripe == chunk.stripes[(stripe_idx % chunk.num_stripes) + 1] IN
    IF stripe.fh THEN [idx |-> stripe_idx, err |-> ""]
    ELSE IF steps > chunk.num_stripes THEN [idx |-> stripe_idx, err |-> "hang"]
    ELSE IF HasFlag(chunk.type, {"DUP"}) THEN FailoverRaid56Next(chunk, 1, steps + 1)
    ELSE FailoverRaid56Next(chunk, stripe_idx + 1, steps + 1)

\* `while stripe.fh is None`: the stripe index the loop ends on, the error it
\* raises, or "hang" when it has tried more stripes than the chunk has
RECURSIVE Failover(_, _, _)
Failover(chunk, stripe_idx, steps) ==
    LET stripe == chunk.stripes[(stripe_idx % chunk.num_stripes) + 1] IN
    IF stripe.fh THEN [idx |-> stripe_idx, err |-> ""]
    ELSE IF steps > chunk.num_stripes THEN [idx |-> stripe_idx, err |-> "hang"]
    ELSE IF HasFlag(chunk.type, {"DUP"}) THEN Failover(chunk, 1, steps + 1)
    ELSE IF HasFlag(chunk.type, BTRFS_BLOCK_GROUP_RAID56_MASK)
         THEN [idx |-> stripe_idx, err |-> "NotImplementedError"]
    ELSE Failover(chunk, stripe_idx + 1, steps + 1)

\* The value of a set of one element; binds a local value that is used
\* several times
Only(S) == CHOOSE x \in S : TRUE

\* One pass of the inner loop: the stripe read at chunk_offset
StripeRead(chunk, chunk_offset, length) ==
    Only({ Only({ [ err   |-> f.err,
                    n     |-> Min(info.stripe_remaining, length),
                    sel   |-> info.stripe_idx,
                    idx   |-> f.idx % chunk.num_stripes,
                    bytes |-> IF f.err /= "" THEN <<>>
                              ELSE DeviceRead(chunk, f.idx % chunk.num_stripes,
                                       chunk.stripes[(f.idx % chunk.num_stripes) + 1].offset
                                         + info.stripe_offset
                                         + info.stripe_num * chunk.stripe_length,
                                       Min(info.stripe_remaining, length)) ]
                  : f \in { IF info.err /= "" THEN [idx |-> 0, err |-> info.err]
                            ELSE Failover(chunk, info.stripe_idx, 0) } })
           : info \in {StripeReadInfo(chunk, chunk_offset)} })

\* `while length > 0 and chunk_remaining > 0`; used: the pairs of the stripe
\* selected and the stripe read from (-1: none)
RECURSIVE ChunkInnerLoop(_, _, _, _, _, _, _)
ChunkInnerLoop(chunk, offset, length, chunk_offset, chunk_remaining, r, used) ==
    IF ~(length > 0 /\ chunk_remaining > 0)
    THEN [bytes |-> r, err |-> "", length |-> length, offset |-> offset, used |-> used]
    ELSE Only({ IF sr.err /= ""
                THEN [bytes |-> r, err |-> sr.err, length |-> length, offset |-> offset,
                      used |-> used \cup {<<sr.sel, -1>>}]
                ELSE ChunkInnerLoop(chunk, offset + sr.n, length - sr.n,
                                    chunk_offset + sr.n, chunk_remaining - sr.n,
                                    r \o sr.bytes, used \cup {<<sr.sel, sr.idx>>})
              : sr \in {StripeRead(chunk, chunk_offset, length)} })

\* (mutant) the whole rest of the read is filled with zero bytes
BelowFirstChunkAll(offset, length) == length

\* read_count = min(self._chunk_offsets[0] - offset, length)
BelowFirstChunk(offset, length) == Min(chunk_offsets[1] - offset, length)

\* `while length > 0` over the chunks cs
RECURSIVE ChunkReadLoop(_, _, _, _, _, _)
ChunkReadLoop(cs, offset, length, chunk_idx, r, used) ==
    IF length <= 0 \/ chunk_idx > Len(cs) THEN [bytes |-> r, err |-> "", used |-> used]
    ELSE IF chunk_idx = 0
    THEN IF chunk_offsets = <<>> THEN [bytes |-> r, err |-> "IndexError", used |-> used]
         ELSE ChunkReadLoop(cs, offset + BelowFirstChunk(offset, length),
                            length - BelowFirstChunk(offset, length), 1,
                            r \o Zeros(BelowFirstChunk(offset, length)), used)
    ELSE Only({ IF inner.err /= ""
                THEN [bytes |-> inner.bytes, err |-> inner.err, used |-> inner.used]
                ELSE ChunkReadLoop(cs, inner.offset, inner.length, chunk_idx + 1,
                                   inner.bytes, inner.used)
              : inner \in { ChunkInnerLoop(cs[chunk_idx], offset, length,
                                           offset - cs[chunk_idx].offset,
                                           cs[chunk_idx].length
                                             - (offset - cs[chunk_idx].offset),
                                           r, used) } })

\* ChunkStream._read(offset, length) of a stream holding the chunks cs
ChunkRead(cs, offset, length) ==
    ChunkReadLoop(cs, offset, length, BisectRight(chunk_offsets, offset), <<>>, {})

(***************************************************************************)
(* SpecStripe: one chunk of any profile and stripe count is added to a     *)
(* fresh stream, then the logical address space is read                    *)
(***************************************************************************)
StripeAddOffsets == {StripeLen}

\* The stripe counts a profile with redundancy allows
AllowedStripes(c) ==
    \/ HasFlag(c.type, {"RAID1"}) /\ c.num_stripes = 2
    \/ HasFlag(c.type, {"RAID1C3"}) /\ c.num_stripes = 3
    \/ HasFlag(c.type, {"RAID1C4"}) /\ c.num_stripes = 4
    \/ HasFlag(c.type, {"RAID10"}) /\ c.num_stripes >= 2 /\ c.num_stripes % c.sub_stripes = 0
    \/ HasFlag(c.type, {"RAID5"}) /\ c.num_stripes >= 2
    \/ HasFlag(c.type, {"RAID6"}) /\ c.num_stripes >= 3

\* below the chunk, the start of every stripe, inside the first stripe, the end
ReadOffsets ==
    {StripeLen - 1, StripeLen + 1} \cup {StripeLen + k * StripeLen : k \in 0..StripesPerChunk}
ReadLengths == {1, 2 * StripeLen + 1}

\* self._logical_fh._read(offset, length)
ReadAt(offset, length) ==
    /\ rd' = [kind |-> "read", offset |-> offset, length |-> length,
              result |-> ChunkRead(chunks, offset, length)]
    /\ UNCHANGED <<devices, chunks, chunk_offsets, addResult, openFailed,
                   extentVars, pathVars, treeVars>>

NextStripe ==
    \/ \E offset \in StripeAddOffsets, c \in ChunkRecords : chunks = <<>> /\ Add(offset, c, TRUE)
    \/ \E offset \in ReadOffsets, length \in ReadLengths : ReadAt(offset, length)

SpecStripe == InitChunk /\ [][NextStripe]_vars

(***************************************************************************)
(* Claims about ChunkStream                                                *)
(***************************************************************************)
\* The stripes of an installed chunk that have no device
ChunkMissing(chunk) == {i \in 1..Len(chunk.stripes) : ~chunk.stripes[i].fh}

\* The tolerated failures the profiles are documented with
DocumentedTolerance(type) ==
    IF HasFlag(type, {"RAID1C4"}) THEN 3
    ELSE IF HasFlag(type, {"RAID6", "RAID1C3"}) THEN 2
    ELSE IF HasFlag(type, {"RAID1", "RAID10", "RAID5"}) THEN 1
    ELSE 0

\* C4: add() of a chunk that no installed chunk covers installs it if and only
\* if the number of its stripes without an opened device is at most the
\* documented tolerated failures of its profile, and otherwise raises Error and
\* the open fails; every installed chunk has at most that many stripes
\* without a device.
C4_AcceptsIffTolerated ==
    /\ \A i \in 1..Len(chunks) :
          Cardinality(ChunkMissing(chunks[i])) <= DocumentedTolerance(chunks[i].type)
    /\ (rd.kind = "add" /\ addResult /= "covered") =>
          IF Cardinality(MissingStripes(rd.chunk)) <= DocumentedTolerance(rd.chunk.type)
          THEN /\ addResult = "installed"
               /\ \E i \in 1..Len(chunks) : /\ chunks[i].offset = rd.offset
                                            /\ chunks[i].type = rd.chunk.type
                                            /\ chunks[i].length = rd.chunk.length
          ELSE /\ addResult = "error"
               /\ openFailed
               /\ \A i \in 1..Len(chunks) : chunks[i].offset /= rd.offset

\* a chunk was installed although as many of its stripes as its profile
\* tolerates have no device
C4_Witness ==
    /\ rd.kind = "add"
    /\ addResult = "installed"
    /\ \E i \in 1..Len(chunks) :
          /\ ChunkMissing(chunks[i]) /= {}
          /\ Cardinality(ChunkMissing(chunks[i])) = DocumentedTolerance(chunks[i].type)
          /\ Cardinality(ChunkMissing(chunks[i])) < chunks[i].num_stripes

\* An installed chunk of a mirrored profile
MirroredChunk(chunk) ==
    HasFlag(chunk.type, BTRFS_BLOCK_GROUP_RAID1_MASK \cup {"RAID10"}) /\ AllowedStripes(chunk)

\* The installed chunks with every device present
FullChunks ==
    [i \in 1..Len(chunks) |->
        [chunks[i] EXCEPT !.stripes = [j \in 1..Len(chunks[i].stripes) |->
                                          [chunks[i].stripes[j] EXCEPT !.fh = TRUE]]]]

\* C5: a read from an installed chunk of a mirrored profile returns the bytes
\* the same read returns when every device is present.
C5_DegradedReadEqualsFull ==
    (rd.kind = "read" /\ chunks /= <<>> /\ \A i \in 1..Len(chunks) : MirroredChunk(chunks[i]))
        => /\ rd.result.err = ""
           /\ rd.result.bytes = ChunkRead(FullChunks, rd.offset, rd.length).bytes

\* An installed RAID5 or RAID6 chunk
ParityChunk(chunk) ==
    HasFlag(chunk.type, BTRFS_BLOCK_GROUP_RAID56_MASK) /\ AllowedStripes(chunk)

\* C6: a read of a RAID5/6 chunk fails with NotImplementedError if and only if
\* it resolves to a stripe without a device; every stripe it reads from is the
\* stripe it resolved to, and a read that succeeds returns every byte of the
\* range that lies in the chunk.
C6_Raid56MissingUnsupported ==
    (rd.kind = "read" /\ chunks /= <<>> /\ ParityChunk(chunks[1])) =>
        LET chunk == chunks[1]
            used == rd.result.used
            inChunk == {b \in rd.offset..(rd.offset + rd.length - 1) :
                           b >= chunk.offset /\ b < chunk.offset + chunk.length}
            below == {b \in rd.offset..(rd.offset + rd.length - 1) : b < chunk.offset}
        IN /\ (rd.result.err = "NotImplementedError")
                <=> (\E p \in used : ~chunk.stripes[p[1] + 1].fh)
           /\ rd.result.err \in {"", "NotImplementedError"}
           /\ \A p \in used : p[2] = p[1] \/ (p[2] = -1 /\ ~chunk.stripes[p[1] + 1].fh)
           /\ rd.result.err = "" =>
                /\ Len(rd.result.bytes) = Cardinality(inChunk) + Cardinality(below)
                /\ \A k \in 1..Len(rd.result.bytes) :
                      k > Cardinality(below) =>
                          /\ rd.result.bytes[k][1] = "data"
                          /\ chunk.stripes[rd.result.bytes[k][3] + 1].fh

\* a read of a degraded RAID5/6 chunk failed on a stripe without a device
C6_Witness ==
    /\ rd.kind = "read"
    /\ chunks /= <<>>
    /\ ParityChunk(chunks[1])
    /\ ChunkMissing(chunks[1]) /= {}
    /\ rd.result.err = "NotImplementedError"

(***************************************************************************)
(* Path resolution: Subvolume.get, INode.link_inode                        *)
(***************************************************************************)
BTRFS_FS_TREE_OBJECTID == 5
BTRFS_FIRST_FREE_OBJECTID == 256

None == [kind |-> "none"]

\* an exception that leaves get
Raised(e) == [kind |-> "error", err |-> e]

\* Subvolume(btrfs, objectid, parent)
Subvolume(objectid, parent) ==
    [kind |-> "subvolume", objectid |-> objectid, parent |-> parent]

\* INode(subvolume, inum, type, parent)
INode(subvolume, inum, type, parent) ==
    [kind |-> "inode", subvolume |-> subvolume, inum |-> inum, type |-> type,
     parent |-> parent]

\* `x or y` on objects: None is the only false one
Truthy(x) == x.kind /= "none"

\* One btrfs_dir_item of a tree: the directory inum has an entry name whose
\* location is an inode of the tree (INODE_ITEM) or the root of a subvolume
\* (ROOT_ITEM)
DirItem(tree, inum, name, loctype, objectid, type) ==
    [tree |-> tree, inum |-> inum, name |-> name, loctype |-> loctype,
     objectid |-> objectid, type |-> type]

\* The image: the FS_TREE with a directory d, files, a nested subvolume sub
\* and symlinks; the subvolume with a file and a symlink
FsTree == BTRFS_FS_TREE_OBJECTID
SubTree == BTRFS_FIRST_FREE_OBJECTID
RootDir == BTRFS_FIRST_FREE_OBJECTID

ImageDirItems ==
    { DirItem(FsTree, RootDir, "d", "INODE_ITEM", RootDir + 1, "DIR"),
      DirItem(FsTree, RootDir, "f", "INODE_ITEM", RootDir + 2, "REG"),
      DirItem(FsTree, RootDir, "sub", "ROOT_ITEM", SubTree, "DIR"),
      DirItem(FsTree, RootDir, "ld", "INODE_ITEM", RootDir + 3, "LNK"),
      DirItem(FsTree, RootDir, "a", "INODE_ITEM", RootDir + 4, "LNK"),
      DirItem(FsTree, RootDir, "x", "INODE_ITEM", RootDir + 5, "REG"),
      DirItem(FsTree, RootDir + 1, "f", "INODE_ITEM", RootDir + 6, "REG"),
      DirItem(SubTree, RootDir, "f", "INODE_ITEM", RootDir + 1, "REG"),
      DirItem(SubTree, RootDir, "la", "INODE_ITEM", RootDir + 2, "LNK") }

\* The symlink targets, split on "/": ld -> "d", a -> "/sub", sub/la -> "/d"
ImageLinks ==
    { [tree |-> FsTree, inum |-> RootDir + 3, link |-> <<"d">>],
      [tree |-> FsTree, inum |-> RootDir + 4, link |-> <<"", "sub">>],
      [tree |-> SubTree, inum |-> RootDir + 2, link |-> <<"", "d">>] }

\* crc32c of a name: the names x and y collide
NameHash(name) == IF name = "y" THEN "x" ELSE name

\* BTree.find(inum, BTRFS_DIR_ITEM_KEY, hash): the items found
TreeFind(tree, inum, hash) ==
    {e \in ImageDirItems : e.tree = tree /\ e.inum = inum /\ NameHash(e.name) = hash}

\* Subvolume.root
SubvolumeRoot(subvolume) == INode(subvolume, RootDir, "DIR", subvolume.parent)

\* link.startswith("/")
IsAbsolute(link) == Len(link) >= 2 /\ link[1] = ""

RECURSIVE GetLoop(_, _, _, _, _)
RECURSIVE ResolveLinks(_)
RECURSIVE LinkInode(_)

\* The node a directory item leads to, and the subvolume the lookup goes on in
FollowDirItem(dir_item, subvolume) ==
    IF dir_item.loctype = "ROOT_ITEM"
    THEN [subvolume |-> Subvolume(dir_item.objectid, subvolume),
          node      |-> SubvolumeRoot(Subvolume(dir_item.objectid, subvolume))]
    ELSE IF dir_item.loctype = "INODE_ITEM"
    THEN [subvolume |-> subvolume,
          node      |-> INode(subvolume, dir_item.objectid, dir_item.type, subvolume)]
    ELSE [subvolume |-> subvolume, node |-> Raised("NotImplementedError")]

\* Subvolume.get(path, node): path split on "/"
Get(self, parts, node) ==
    GetLoop(self, parts, 1, IF Truthy(node) THEN node ELSE SubvolumeRoot(self), self)

\* `for part in parts`
GetLoop(self, parts, i, node, subvolume) ==
    IF node.kind = "error" THEN node
    ELSE IF i > Len(parts) THEN node
    ELSE IF parts[i] = "" \/ parts[i] = "."
    THEN GetLoop(self, parts, i + 1, node, subvolume)
    ELSE IF parts[i] = ".."
    THEN GetLoop(self, parts, i + 1, IF Truthy(node.parent) THEN node.parent ELSE node,
                 subvolume)
    ELSE Only({ IF dir.kind = "error" THEN dir
                ELSE Only({ IF found = {} THEN Raised("FileNotFoundError")
                            ELSE Only({ GetLoop(self, parts, i + 1, next.node, next.subvolume)
                                        : next \in {FollowDirItem(Only(found), subvolume)} })
                            : found \in {TreeFind(subvolume.objectid, dir.inum,
                                                  NameHash(parts[i]))} })
                : dir \in {ResolveLinks(node)} })

\* `while node.is_symlink(): node = node.link_inode`; an object that is no
\* INode has no is_symlink
ResolveLinks(node) ==
    IF node.kind /= "inode" THEN Raised("AttributeError")
    ELSE IF node.type /= "LNK" THEN node
    ELSE Only({ IF target.kind = "error" THEN target ELSE ResolveLinks(target)
                : target \in {LinkInode(node)} })

\* INode.link_inode
LinkInode(node) ==
    Only({ IF links = {} THEN Raised("KeyError")
           ELSE Get(node.subvolume, Only(links).link,
                    IF IsAbsolute(Only(links).link) THEN None ELSE node.parent)
           : links \in { {l \in ImageLinks : /\ l.tree = node.subvolume.objectid
                                             /\ l.inum = node.inum} } })

\* Btrfs.get(path, node)
BtrfsGet(parts, node) == Get(Subvolume(BTRFS_FS_TREE_OBJECTID, None), parts, node)

\* INode.get(path)
INodeGet(node, parts) == Get(node.subvolume, parts, node)

(***************************************************************************)
(* SpecPath: paths are resolved on the image, from the root and from the   *)
(* inode an earlier get returned                                           *)
(***************************************************************************)
MaxPath == 3
MaxRel == 2

PathNames == {"d", "f", "sub", "ld", "a", "la", "y", ".."}

Paths(n) == UNION { [1..k -> PathNames] : k \in 0..n }

\* the paths of the inodes a relative lookup starts from
BasePaths == { <<>>, <<"d">>, <<"sub">>, <<"ld">> }

InitPath ==
    /\ req = [kind |-> "none"]
    /\ res = [kind |-> "none"]
    /\ IdleExtent
    /\ IdleChunk
    /\ IdleTree

\* fs.get(path)
GetPath(path) ==
    /\ req' = [kind |-> "get", path |-> path]
    /\ res' = BtrfsGet(path, None)
    /\ UNCHANGED <<extentVars, chunkVars, treeVars>>

\* fs.get(b, fs.get(a))
GetFrom(a, b) ==
    /\ req' = [kind |-> "get_from", a |-> a, b |-> b]
    /\ res' = Only({ IF base.kind = "error" THEN base ELSE BtrfsGet(b, base)
                     : base \in {BtrfsGet(a, None)} })
    /\ UNCHANGED <<extentVars, chunkVars, treeVars>>

\* fs.get(a).get(b)
GetInode(a, b) ==
    /\ req' = [kind |-> "inode_get", a |-> a, b |-> b]
    /\ res' = Only({ IF base.kind = "error" THEN base ELSE INodeGet(base, b)
                     : base \in {BtrfsGet(a, None)} })
    /\ UNCHANGED <<extentVars, chunkVars, treeVars>>

NextPath ==
    \/ \E path \in Paths(MaxPath) : GetPath(path)
    \/ \E a \in BasePaths, b \in Paths(MaxRel) : GetFrom(a, b)
    \/ \E a \in BasePaths, b \in Paths(MaxRel) : GetInode(a, b)

SpecPath == InitPath /\ [][NextPath]_vars

(***************************************************************************)
(* Claims about path resolution                                            *)
(***************************************************************************)
\* Two results of get agree: the same inode of the same subvolume, or the
\* same object or error
Agree(x, y) ==
    IF x.kind = "inode" /\ y.kind = "inode"
    THEN x.subvolume.objectid = y.subvolume.objectid /\ x.inum = y.inum
    ELSE x.kind = y.kind /\ x = y

IsDirectory(x) == x.kind = "inode" /\ x.type = "DIR"

\* a path segment that is looked up in a directory
IsName(part) == part /= "" /\ part /= "." /\ part /= ".."

\* the entries of the directory d with the name s
Named(d, s) ==
    {e \in ImageDirItems : /\ e.tree = d.subvolume.objectid
                           /\ e.inum = d.inum
                           /\ e.name = s}

\* C7: when get(a) is a directory, get(b, get(a)) returns what get(a/b)
\* returns.
C7_GetIsLeftFold ==
    (req.kind = "get_from" /\ IsDirectory(BtrfsGet(req.a, None)))
        => Agree(res, BtrfsGet(req.a \o req.b, None))

\* C8: get(p/x/..) returns the directory get(p) when x is an entry of it, and
\* get(..) returns the root, which has no parent.
C8_DotDotReturnsDirectory ==
    /\ (req.kind = "get" /\ req.path = <<"..">>)
          => Agree(res, SubvolumeRoot(Subvolume(BTRFS_FS_TREE_OBJECTID, None)))
    /\ (/\ req.kind = "get"
        /\ Len(req.path) >= 2
        /\ req.path[Len(req.path)] = ".."
        /\ IsName(req.path[Len(req.path) - 1])
        /\ IsDirectory(BtrfsGet(SubSeq(req.path, 1, Len(req.path) - 2), None))
        /\ Named(BtrfsGet(SubSeq(req.path, 1, Len(req.path) - 2), None),
                 req.path[Len(req.path) - 1]) /= {})
          => Agree(res, BtrfsGet(SubSeq(req.path, 1, Len(req.path) - 2), None))

\* C9: the lookup of a name s in the directory get(p) returns an inode only if
\* the directory has an entry named s, and raises FileNotFoundError if it has
\* none.
C9_ExactNameLookup ==
    (/\ req.kind = "get"
     /\ Len(req.path) >= 1
     /\ IsName(req.path[Len(req.path)])
     /\ IsDirectory(BtrfsGet(SubSeq(req.path, 1, Len(req.path) - 1), None)))
       => LET d == BtrfsGet(SubSeq(req.path, 1, Len(req.path) - 1), None)
              s == req.path[Len(req.path)]
          IN /\ res.kind = "inode" => Named(d, s) /= {}
             /\ Named(d, s) = {} => res = Raised("FileNotFoundError")

\* the target of the symlink node
LinkOf(node) ==
    Only({l \in ImageLinks : l.tree = node.subvolume.objectid /\ l.inum = node.inum}).link

\* C10: a symlink get(p/l) in the directory get(p) that is followed by a name
\* is replaced by its target: get(p/l/rest) returns what get(target/rest)
\* returns for a target that starts with "/", and what get(p/target/rest)
\* returns otherwise.
C10_SymlinkResolution ==
    req.kind = "get" =>
        \A i \in 1..(Len(req.path) - 1) :
            LET p    == SubSeq(req.path, 1, i - 1)
                l    == BtrfsGet(SubSeq(req.path, 1, i), None)
                rest == SubSeq(req.path, i + 1, Len(req.path))
            IN (/\ \A k \in 1..i : IsName(req.path[k])
                /\ IsDirectory(BtrfsGet(p, None))
                /\ l.kind = "inode"
                /\ l.type = "LNK"
                /\ IsName(rest[1]))
                  => Agree(res, IF IsAbsolute(LinkOf(l))
                                THEN BtrfsGet(LinkOf(l) \o rest, None)
                                ELSE BtrfsGet(p \o LinkOf(l) \o rest, None))

(***************************************************************************)
(* B-trees and the cursor (tree.py).                                       *)
(*                                                                         *)
(* A node is [level, keys, ptrs]: level 0 is a leaf whose ptrs are the     *)
(* item data, a higher level is a branch whose ptrs are its child nodes    *)
(* (the child stands for its blockptr) and whose keys are the first keys   *)
(* of the children.  A key is <<objectid, type, offset>>.                  *)
(***************************************************************************)
MaxFanout == 2
MaxLevel == 2
MaxTreeItems == 4

\* an absent optional argument (None)
Nil == 0 - 1

Key(objectid, type, offset) == <<objectid, type, offset>>

\* what a read outside the item array of a node decodes to: bytes that are
\* no item of the tree
GarbageKey == Key(Nil, Nil, Nil)
Garbage == [level |-> 0 - 2, keys |-> <<>>, ptrs |-> <<>>]

\* the keys of the images, ascending
KeyUniverse ==
    << Key(1, 1, 0), Key(2, 1, 3), Key(2, 1, 5), Key(2, 1, 7), Key(2, 2, 0), Key(3, 1, 1) >>

ItemData(key) == <<"item", key>>

RECURSIVE SubSeqs(_, _)
\* the subsequences of s[i..] (order kept)
SubSeqs(s, i) ==
    IF i > Len(s) THEN {<<>>}
    ELSE LET rest == SubSeqs(s, i + 1)
         IN  rest \cup { <<s[i]>> \o r : r \in rest }

RECURSIVE Splits(_, _)
\* the ways to cut s into k consecutive non-empty parts
Splits(s, k) ==
    IF k = 1 THEN (IF Len(s) >= 1 THEN {<<s>>} ELSE {})
    ELSE UNION { { <<SubSeq(s, 1, n)>> \o rest : rest \in Splits(SubSeq(s, n + 1, Len(s)), k - 1) }
                 : n \in 1..(Len(s) - (k - 1)) }

RECURSIVE ChildLists(_, _, _)
RECURSIVE Trees(_, _, _)
\* the lists of subtrees of one level over the parts of a split
ChildLists(parts, data, level) ==
    IF parts = <<>> THEN {<<>>}
    ELSE { <<c>> \o rest : c \in Trees(Head(parts), data, level),
                           rest \in ChildLists(Tail(parts), data, level) }

\* the well-formed trees of a level whose leaf items are keys, in that order
Trees(keys, data, level) ==
    IF level = 0
    THEN IF Len(keys) \in 1..MaxFanout
         THEN { [level |-> 0, keys |-> keys, ptrs |-> [i \in 1..Len(keys) |-> data[keys[i]]]] }
         ELSE {}
    ELSE UNION { { [level |-> level,
                    keys |-> [i \in 1..Len(cs) |-> cs[i].keys[1]],
                    ptrs |-> cs]
                   : cs \in ChildLists(parts, data, level - 1) }
                 : parts \in UNION { Splits(keys, k) : k \in 2..MaxFanout } }

UniverseData == [k \in {KeyUniverse[i] : i \in 1..Len(KeyUniverse)} |-> ItemData(k)]

WellFormedTrees ==
    UNION { Trees(keys, UniverseData, level)
            : keys \in {k \in SubSeqs(KeyUniverse, 1) : Len(k) \in 1..MaxTreeItems},
              level \in 0..MaxLevel }

RECURSIVE LeafKeys(_)
\* the keys of the leaf items of a tree, left to right
LeafKeys(node) ==
    IF node.level = 0 THEN node.keys
    ELSE IF node.level < 0 THEN <<>>
    ELSE LET RECURSIVE Cat(_)
             Cat(i) == IF i > Len(node.ptrs) THEN <<>> ELSE LeafKeys(node.ptrs[i]) \o Cat(i + 1)
         IN  Cat(1)

(***************************************************************************)
(* Cursor.  A cursor is [path, node, index, has_index]: has_index is FALSE *)
(* when _index is None, and a frame of path keeps the node and index of    *)
(* the level above.  A call returns the new cursor and what it raised      *)
(* (err): "" for nothing, "ValueError", "Garbage" when it followed a block *)
(* pointer decoded from outside the item array, "hang" when it loops.      *)
(***************************************************************************)
NewCursor == [path |-> <<>>, node |-> NoNode, index |-> 0, has_index |-> FALSE]

Ok(c) == [c |-> c, err |-> ""]
Fail(c, e) == [c |-> c, err |-> e]

\* Cursor.push: the index of initial_index -1 is header.nritems
CursorPush(c, node, initial_index) ==
    [path |-> Append(c.path, [node |-> c.node, index |-> c.index, has_index |-> c.has_index]),
     node |-> node,
     index |-> IF initial_index = 0 - 1 THEN Len(node.keys) ELSE initial_index,
     has_index |-> TRUE]

\* Cursor.pop
CursorPop(c) ==
    LET f == c.path[Len(c.path)]
    IN  [path |-> SubSeq(c.path, 1, Len(c.path) - 1),
         node |-> f.node, index |-> f.index, has_index |-> f.has_index]

\* Cursor.reset (and Cursor.__init__)
CursorReset(root) == CursorPush(NewCursor, root, 0)

\* Cursor._read_key and Cursor._read_item
ReadKey(node, index) ==
    IF index >= 0 /\ index < Len(node.keys) THEN node.keys[index + 1] ELSE GarbageKey

ReadPtr(node, index) ==
    IF index >= 0 /\ index < Len(node.ptrs) THEN node.ptrs[index + 1] ELSE Garbage

\* self.push(self.item().blockptr, initial_index)
PushChild(c, initial_index) ==
    IF ~c.has_index THEN Fail(c, "ValueError")
    ELSE IF c.index >= 0 /\ c.index < Len(c.node.ptrs)
    THEN Ok(CursorPush(c, ReadPtr(c.node, c.index), initial_index))
    ELSE Fail(c, "Garbage")

RECURSIVE DescendWhile(_, _)
\* while self._header.level: self.push(self.item().blockptr, initial_index)
DescendWhile(c, initial_index) ==
    IF c.node.level <= 0 THEN Ok(c)
    ELSE LET r == PushChild(c, initial_index)
         IN  IF r.err # "" THEN r ELSE DescendWhile(r.c, initial_index)

\* while self._index is not None and self._index + 1 >= nritems: self.pop()
PopOnceNext(c) ==
    IF c.has_index /\ c.index + 1 >= Len(c.node.keys) THEN CursorPop(c) ELSE c

RECURSIVE PopWhileNext(_)
PopWhileNext(c) ==
    IF c.has_index /\ c.index + 1 >= Len(c.node.keys) THEN PopWhileNext(CursorPop(c)) ELSE c

\* Cursor.next_node
CursorNextNode(c) ==
    LET p == PopWhileNext(c)
    IN  IF ~p.has_index THEN Fail(p, "ValueError")
        ELSE LET q == [p EXCEPT !.index = @ + 1]
             IN  IF q.node.level > 0 THEN PushChild(q, 0) ELSE Ok(q)

\* Cursor.next
CursorNext(c) ==
    LET r == CursorNextNode(c)
    IN  IF r.err # "" THEN r ELSE DescendWhile(r.c, 0)

RECURSIVE PopWhilePrev(_)
PopWhilePrev(c) ==
    IF c.has_index /\ c.index - 1 < 0 THEN PopWhilePrev(CursorPop(c)) ELSE c

\* Cursor.prev_node
CursorPrevNode(c) ==
    LET p == PopWhilePrev(c)
    IN  IF ~p.has_index THEN Fail(p, "ValueError")
        ELSE LET q == [p EXCEPT !.index = @ - 1]
             IN  IF q.node.level > 0 THEN PushChild(q, 0 - 1) ELSE Ok(q)

\* Cursor.prev
CursorPrev(c) ==
    LET r == CursorPrevNode(c)
    IN  IF r.err # "" THEN r ELSE DescendWhile(r.c, 0 - 1)

\* Cursor.first
CursorFirst(root) == DescendWhile(CursorReset(root), 0)

\* Cursor.last
CursorLast(root) ==
    DescendWhile([CursorReset(root) EXCEPT !.index = Len(root.keys) - 1], 0 - 1)

\* Cursor.get: the item at the cursor, with its key
CursorGet(c) ==
    IF ~c.has_index THEN [key |-> GarbageKey, err |-> "ValueError"]
    ELSE [key |-> ReadKey(c.node, c.index), err |-> ""]

\* _cmp_key
CmpKey(key, objectid, type, offset) ==
    IF objectid # Nil /\ key[1] > objectid THEN 1
    ELSE IF objectid # Nil /\ key[1] < objectid THEN 0 - 1
    ELSE IF type # Nil /\ key[2] > type THEN 1
    ELSE IF type # Nil /\ key[2] < type THEN 0 - 1
    ELSE IF offset # Nil /\ key[3] > offset THEN 1
    ELSE IF offset # Nil /\ key[3] < offset THEN 0 - 1
    ELSE 0

\* offset or 0
OrZero(offset) == IF offset = Nil THEN 0 ELSE offset

RECURSIVE SearchBisect(_, _, _, _, _, _)
\* the bisection of Cursor.search over the keys of one node
SearchBisect(node, min_idx, max_idx, objectid, type, offset) ==
    IF min_idx = max_idx THEN min_idx
    ELSE LET test_idx == (min_idx + max_idx) \div 2
         IN  IF CmpKey(ReadKey(node, test_idx), objectid, type, OrZero(offset)) < 0
             THEN SearchBisect(node, test_idx + 1, max_idx, objectid, type, offset)
             ELSE SearchBisect(node, min_idx, test_idx, objectid, type, offset)

RECURSIVE CursorSearch(_, _, _, _)
\* Cursor.search, from the node the cursor is on: [c, found, err].  A cursor
\* that was popped off the root has no header (self._header is None); in a
\* node with nritems = 0 the bisection runs with min_idx 0 and max_idx -1,
\* which never meet.
CursorSearch(c, objectid, type, offset) ==
    IF c.node = NoNode
    THEN [c |-> c, found |-> FALSE, err |-> "AttributeError"]
    ELSE IF Len(c.node.keys) = 0
    THEN [c |-> c, found |-> FALSE, err |-> "hang"]
    ELSE LET min_idx == SearchBisect(c.node, 0, Len(c.node.keys) - 1, objectid, type, offset)
             result == CmpKey(ReadKey(c.node, min_idx), objectid, type, offset)
             unset == [c EXCEPT !.has_index = FALSE]
         IN  IF c.node.level > 0
             THEN LET idx == IF result > 0 /\ min_idx > 0 THEN min_idx - 1 ELSE min_idx
                  IN  CursorSearch(CursorPush([c EXCEPT !.index = idx, !.has_index = TRUE],
                                              ReadPtr(c.node, idx), 0),
                                   objectid, type, offset)
             ELSE IF result >= 0
             THEN [c |-> [c EXCEPT !.index = min_idx, !.has_index = TRUE],
                   found |-> TRUE, err |-> ""]
             ELSE IF min_idx = Len(c.node.keys) - 1
             THEN LET r == CursorNextNode([c EXCEPT !.index = min_idx, !.has_index = TRUE])
                  IN  IF r.err = "" THEN CursorSearch(r.c, objectid, type, offset)
                      ELSE [c |-> [r.c EXCEPT !.has_index = FALSE], found |-> FALSE, err |-> ""]
             ELSE [c |-> unset, found |-> FALSE, err |-> ""]

RECURSIVE IterLoop(_, _, _, _, _)
\* the loop of Cursor.iter: yield while the key at the cursor compares equal
IterLoop(c, objectid, type, offset, yielded) ==
    LET g == CursorGet(c)
    IN  IF g.err # "" THEN [items |-> yielded, c |-> c, err |-> g.err]
        ELSE IF g.key = GarbageKey THEN [items |-> yielded, c |-> c, err |-> "Garbage"]
        ELSE IF CmpKey(g.key, objectid, type, offset) # 0 THEN [items |-> yielded, c |-> c, err |-> ""]
        ELSE LET r == CursorNext(c)
             IN  IF r.err = "ValueError" THEN [items |-> Append(yielded, g.key), c |-> r.c, err |-> ""]
                 ELSE IF r.err # "" THEN [items |-> Append(yielded, g.key), c |-> r.c, err |-> r.err]
                 ELSE IterLoop(r.c, objectid, type, offset, Append(yielded, g.key))

\* None if ignore_offset else offset
IterOffsetKept(offset, ignore_offset) == offset

IterOffset(offset, ignore_offset) == IF ignore_offset THEN Nil ELSE offset

\* Cursor.iter, run to its end: [items, c, err]
CursorIter(c, objectid, type, offset, ignore_offset) ==
    LET s == CursorSearch(c, objectid, type, offset)
    IN  IF s.err # "" THEN [items |-> <<>>, c |-> s.c, err |-> s.err]
        ELSE IF ~s.found THEN [items |-> <<>>, c |-> s.c, err |-> ""]
        ELSE IterLoop(s.c, objectid, type, IterOffset(offset, ignore_offset), <<>>)

RECURSIVE WalkLoop(_, _, _, _, _)
\* the loop of Cursor.walk: yield the matches, advance to the end of the tree
WalkLoop(c, objectid, type, offset, yielded) ==
    LET g == CursorGet(c)
        now == IF g.err = "" /\ g.key # GarbageKey /\ CmpKey(g.key, objectid, type, offset) = 0
               THEN Append(yielded, g.key) ELSE yielded
    IN  IF g.err # "" THEN [items |-> yielded, c |-> c, err |-> g.err]
        ELSE IF g.key = GarbageKey THEN [items |-> yielded, c |-> c, err |-> "Garbage"]
        ELSE LET r == CursorNext(c)
             IN  IF r.err = "ValueError" THEN [items |-> now, c |-> r.c, err |-> ""]
                 ELSE IF r.err # "" THEN [items |-> now, c |-> r.c, err |-> r.err]
                 ELSE WalkLoop(r.c, objectid, type, offset, now)

\* Cursor.walk, run to its end: [items, c, err]
CursorWalk(root, objectid, type, offset) ==
    LET f == CursorFirst(root)
    IN  IF f.err # "" THEN [items |-> <<>>, c |-> f.c, err |-> f.err]
        ELSE WalkLoop(f.c, objectid, type, offset, <<>>)

(***************************************************************************)
(* SpecCursor: one cursor on one well-formed tree.  search, iter and walk  *)
(* are called on a cursor that stands at the root (a new or a reset        *)
(* cursor), the moves are called wherever the cursor stands.               *)
(***************************************************************************)
\* query prefixes: trailing fields may be left out
Queries ==
    {<<Nil, Nil, Nil>>, <<2, Nil, Nil>>, <<3, Nil, Nil>>,
     <<2, 1, Nil>>, <<2, 2, Nil>>, <<3, 1, Nil>>,
     <<2, 1, 0>>, <<2, 1, 4>>, <<2, 1, 5>>, <<2, 1, 8>>, <<3, 1, 0>>, <<4, 1, 0>>}

\* walk filters: any field may be left out
Filters == Queries \cup {<<Nil, 1, Nil>>, <<Nil, Nil, 0>>}

Returned(kind, args, flag, items, err, was) ==
    [kind |-> kind, args |-> args, flag |-> flag, items |-> items, err |-> err, was |-> was]

InitCursor ==
    /\ btree \in WellFormedTrees
    /\ cursor = CursorReset(btree)
    /\ ret = Returned("init", <<>>, FALSE, <<>>, "", NewCursor)
    /\ IdleExtent
    /\ IdleChunk
    /\ IdlePath

AtRoot == cursor = CursorReset(btree)

Move(kind, r) ==
    /\ cursor' = r.c
    /\ ret' = Returned(kind, <<>>, FALSE, <<>>, r.err, cursor)
    /\ UNCHANGED <<btree, extentVars, chunkVars, pathVars>>

DoReset == ~AtRoot /\ Move("reset", Ok(CursorReset(btree)))
DoFirst == Move("first", CursorFirst(btree))
DoLast == Move("last", CursorLast(btree))
DoNext == ret.err # "Garbage" /\ Move("next", CursorNext(cursor))
DoPrev == ret.err # "Garbage" /\ Move("prev", CursorPrev(cursor))

DoSearch(q) ==
    /\ AtRoot
    /\ LET s == CursorSearch(cursor, q[1], q[2], q[3])
       IN  /\ cursor' = s.c
           /\ ret' = Returned("search", q, s.found, <<>>, s.err, cursor)
    /\ UNCHANGED <<btree, extentVars, chunkVars, pathVars>>

DoIter(q, ignore_offset) ==
    /\ AtRoot
    /\ LET r == CursorIter(cursor, q[1], q[2], q[3], ignore_offset)
       IN  /\ cursor' = r.c
           /\ ret' = Returned("iter", q, ignore_offset, r.items, r.err, cursor)
    /\ UNCHANGED <<btree, extentVars, chunkVars, pathVars>>

DoWalk(q) ==
    /\ AtRoot
    /\ LET r == CursorWalk(btree, q[1], q[2], q[3])
       IN  /\ cursor' = r.c
           /\ ret' = Returned("walk", q, FALSE, r.items, r.err, cursor)
    /\ UNCHANGED <<btree, extentVars, chunkVars, pathVars>>

NextCursor ==
    \/ DoReset
    \/ DoFirst
    \/ DoLast
    \/ DoNext
    \/ DoPrev
    \/ \E q \in Queries : DoSearch(q)
    \/ \E q \in Queries, ignore_offset \in BOOLEAN : DoIter(q, ignore_offset)
    \/ \E q \in Filters : DoWalk(q)

SpecCursor == InitCursor /\ [][NextCursor]_vars

(***************************************************************************)
(* Btrfs.subvolumes (btrfs.py).  The root tree holds the ROOT_ITEM of the  *)
(* FS_TREE and one ROOT_REF item (parent, ROOT_REF_KEY, child) per         *)
(* subvolume that has a parent; par[child] = 0 is a subvolume without one. *)
(***************************************************************************)
MaxSubvols == 3
BTRFS_ROOT_ITEM_KEY == 132
BTRFS_ROOT_REF_KEY == 156

SubvolIds == BTRFS_FIRST_FREE_OBJECTID..(BTRFS_FIRST_FREE_OBJECTID + MaxSubvols - 1)

\* the ROOT_REF relations: one parent at most per subvolume
RootRefs ==
    { par \in [SubvolIds -> {0, BTRFS_FS_TREE_OBJECTID} \cup SubvolIds]
      : \A c \in SubvolIds : par[c] # c }

KeyLess(a, b) ==
    \/ a[1] < b[1]
    \/ a[1] = b[1] /\ a[2] < b[2]
    \/ a[1] = b[1] /\ a[2] = b[2] /\ a[3] < b[3]

RECURSIVE SortKeys(_)
SortKeys(S) ==
    IF S = {} THEN <<>>
    ELSE LET m == CHOOSE x \in S : \A y \in S \ {x} : KeyLess(x, y)
         IN  <<m>> \o SortKeys(S \ {m})

RootTreeKeys(par) ==
    SortKeys({Key(BTRFS_FS_TREE_OBJECTID, BTRFS_ROOT_ITEM_KEY, 0)}
             \cup {Key(par[c], BTRFS_ROOT_REF_KEY, c) : c \in {x \in SubvolIds : par[x] # 0}})

RootTrees(par) ==
    UNION { Trees(keys, [k \in {keys[i] : i \in 1..Len(keys)} |-> ItemData(k)], level)
            : keys \in {RootTreeKeys(par)}, level \in 0..MaxLevel }

\* search_ids.append(item.key.offset), for the items found under search_ids[i]
KeepSearchIds(search_ids, i, found) == search_ids

AppendFound(search_ids, i, found) == search_ids \o found

RECURSIVE SubvolumesLoop(_, _, _, _, _)
\* for object_id in search_ids: iterate its ROOT_REF items, reset the cursor
SubvolumesLoop(root, c, search_ids, i, yielded) ==
    IF i > Len(search_ids) THEN [items |-> yielded, err |-> ""]
    ELSE LET r == CursorIter(c, search_ids[i], BTRFS_ROOT_REF_KEY, 0, TRUE)
             found == [j \in 1..Len(r.items) |-> r.items[j][3]]
         IN  IF r.err # ""
             THEN [items |-> yielded \o [j \in 1..Len(found) |-> Subvolume(found[j], None)],
                   err |-> r.err]
             ELSE SubvolumesLoop(root, CursorReset(root), AppendFound(search_ids, i, found), i + 1,
                                 yielded \o [j \in 1..Len(found) |-> Subvolume(found[j], None)])

\* Btrfs.subvolumes, run to its end
Subvolumes(root) ==
    SubvolumesLoop(root, CursorReset(root), <<BTRFS_FS_TREE_OBJECTID>>, 1,
                   <<Subvolume(BTRFS_FS_TREE_OBJECTID, None)>>)

InitSubvol ==
    /\ \E par \in RootRefs :
         /\ req = [kind |-> "image", par |-> par]
         /\ btree \in RootTrees(par)
    /\ res = None
    /\ cursor = NewCursor
    /\ ret = [kind |-> "none"]
    /\ IdleExtent
    /\ IdleChunk

ListSubvolumes ==
    /\ res = None
    /\ LET r == Subvolumes(btree)
       IN  res' = [kind |-> "subvolumes", items |-> r.items, err |-> r.err]
    /\ UNCHANGED <<req, treeVars, extentVars, chunkVars>>

NextSubvol == ListSubvolumes

SpecSubvol == InitSubvol /\ [][NextSubvol]_vars

RECURSIVE Depth(_, _, _)
\* the number of ROOT_REF steps from the FS_TREE down to a subvolume; 0 - 1
\* when there is no such chain
Depth(par, id, fuel) ==
    IF id = BTRFS_FS_TREE_OBJECTID THEN 0
    ELSE IF id = 0 \/ fuel = 0 THEN 0 - 1
    ELSE LET d == Depth(par, par[id], fuel - 1)
         IN  IF d < 0 THEN d ELSE d + 1

ReachableIds(par) ==
    {BTRFS_FS_TREE_OBJECTID} \cup {c \in SubvolIds : Depth(par, c, MaxSubvols) >= 0}

ParentOf(par, id) == IF id = BTRFS_FS_TREE_OBJECTID THEN 0 ELSE par[id]

\* C11: subvolumes() yields the FS_TREE first and then every subvolume that
\* is reachable from it through ROOT_REF items exactly once, breadth first:
\* no subvolume before one of a smaller depth, the subvolumes of one depth
\* in the order of their parents, the children of one parent in key order;
\* and the enumeration ends without an error.
C11_SubvolumesBreadthFirst ==
    res.kind = "subvolumes" =>
        LET ids == [i \in 1..Len(res.items) |-> res.items[i].objectid]
            par == req.par
            place(id) == CHOOSE i \in 1..Len(ids) : ids[i] = id
        IN  /\ res.err = ""
            /\ res.items[1] = Subvolume(BTRFS_FS_TREE_OBJECTID, None)
            /\ \A i \in 1..Len(ids) : res.items[i] = Subvolume(ids[i], None)
            /\ {ids[i] : i \in 1..Len(ids)} = ReachableIds(par)
            /\ \A i, j \in 1..Len(ids) : i # j => ids[i] # ids[j]
            /\ \A i, j \in 1..Len(ids) :
                 i < j =>
                   /\ Depth(par, ids[i], MaxSubvols) <= Depth(par, ids[j], MaxSubvols)
                   /\ (i > 1 /\ Depth(par, ids[i], MaxSubvols) = Depth(par, ids[j], MaxSubvols)) =>
                        \/ place(ParentOf(par, ids[i])) < place(ParentOf(par, ids[j]))
                        \/ ParentOf(par, ids[i]) = ParentOf(par, ids[j]) /\ ids[i] < ids[j]

\* the first subvolume has a child of its own and a later sibling: the
\* listing of a root tree of several nodes has the grandchild last
C11_Witness ==
    /\ res.kind = "subvolumes"
    /\ btree.level > 0
    /\ req.par[BTRFS_FIRST_FREE_OBJECTID] = BTRFS_FS_TREE_OBJECTID
    /\ req.par[BTRFS_FIRST_FREE_OBJECTID + 1] = BTRFS_FIRST_FREE_OBJECTID
    /\ req.par[BTRFS_FIRST_FREE_OBJECTID + 2] = BTRFS_FS_TREE_OBJECTID
    /\ res.items[Len(res.items)].objectid = BTRFS_FIRST_FREE_OBJECTID + 1

(***************************************************************************)
(* INode.iterdir (btrfs.py).  The tree of the subvolume of a directory     *)
(* holds DIR_INDEX items (inum, DIR_INDEX_KEY, index) whose data is one    *)
(* btrfs_dir_item, between the items of other inodes.                      *)
(***************************************************************************)
BTRFS_INODE_ITEM_KEY == 1
BTRFS_DIR_INDEX_KEY == 96

\* the DIR_INDEX items a directory can hold, by index
DirIndexItems(inum) ==
    [index \in {1, 2, 3, 5} |->
        IF index = 1 THEN DirItem(0, inum, "e", "INODE_ITEM", inum + 3, "REG")
        ELSE IF index = 2 THEN DirItem(0, inum, "f", "INODE_ITEM", inum + 1, "REG")
        ELSE IF index = 3 THEN DirItem(0, inum, "sub", "ROOT_ITEM", inum + 4, "DIR")
        ELSE DirItem(0, inum, "d", "INODE_ITEM", inum + 2, "DIR")]

\* the keys a subvolume tree can hold around the directory inum
DirTreeKeys(inum) ==
    {Key(inum - 1, BTRFS_DIR_INDEX_KEY, 7), Key(inum, BTRFS_INODE_ITEM_KEY, 0),
     Key(inum + 1, BTRFS_DIR_INDEX_KEY, 2)}
    \cup {Key(inum, BTRFS_DIR_INDEX_KEY, index) : index \in DOMAIN DirIndexItems(inum)}

DirTreeData(inum, key) ==
    IF key[1] = inum /\ key[2] = BTRFS_DIR_INDEX_KEY
    THEN DirIndexItems(inum)[key[3]]
    ELSE DirItem(0, key[1], "other", "INODE_ITEM", 0, "REG")

DirTrees(inum) ==
    UNION { Trees(keys, [k \in DirTreeKeys(inum) |-> DirTreeData(inum, k)], level)
            : keys \in {SortKeys(S) : S \in {T \in SUBSET DirTreeKeys(inum)
                                              : Cardinality(T) \in 1..(MaxTreeItems + 1)}},
              level \in 0..MaxLevel }

RECURSIVE TreeData(_, _)
\* the data of the leaf item of a key
TreeData(node, key) ==
    IF node.level = 0
    THEN node.ptrs[CHOOSE i \in 1..Len(node.keys) : node.keys[i] = key]
    ELSE TreeData(node.ptrs[CHOOSE i \in 1..Len(node.ptrs)
                               : \E j \in 1..Len(LeafKeys(node.ptrs[i]))
                                   : LeafKeys(node.ptrs[i])[j] = key], key)

\* one directory entry of iterdir: a subvolume is entered at its root with the
\* directory as parent, an inode is made in the subvolume of the directory
IterdirEntryInode(self, dir_item) ==
    [name |-> dir_item.name,
     node |-> INode(self.subvolume, dir_item.objectid, dir_item.type, self)]

IterdirEntry(self, dir_item) ==
    IF dir_item.loctype = "ROOT_ITEM"
    THEN [name |-> dir_item.name,
          node |-> SubvolumeRoot(Subvolume(dir_item.objectid, self))]
    ELSE IF dir_item.loctype = "INODE_ITEM"
    THEN [name |-> dir_item.name,
          node |-> INode(self.subvolume, dir_item.objectid, dir_item.type, self)]
    ELSE [name |-> dir_item.name, node |-> Raised("NotImplementedError")]

\* INode.iterdir, run to its end: what it yielded and what it raised
Iterdir(self, root) ==
    IF self.type # "DIR"
    THEN [items |-> <<>>, err |-> "NotADirectoryError"]
    ELSE LET r == CursorIter(CursorReset(root), self.inum, BTRFS_DIR_INDEX_KEY, 2, TRUE)
         IN  [items |-> << [name |-> ".", node |-> self],
                           [name |-> "..", node |-> IF Truthy(self.parent) THEN self.parent ELSE self] >>
                        \o [i \in 1..Len(r.items) |-> IterdirEntry(self, TreeData(root, r.items[i]))],
              err |-> r.err]

\* the inodes iterdir is called on: the root of the filesystem, a directory
\* and a nested subvolume root yielded by the iterdir of the root, a
\* directory returned by get (its parent is the subvolume), a regular file
FsRoot == SubvolumeRoot(Subvolume(BTRFS_FS_TREE_OBJECTID, None))

IterdirNodes ==
    { FsRoot,
      INode(FsRoot.subvolume, RootDir + 1, "DIR", FsRoot),
      SubvolumeRoot(Subvolume(RootDir + 1, FsRoot)),
      INode(FsRoot.subvolume, RootDir + 1, "DIR", FsRoot.subvolume),
      INode(FsRoot.subvolume, RootDir + 1, "REG", FsRoot) }

InitDir ==
    /\ \E d \in IterdirNodes :
         /\ req = [kind |-> "image", d |-> d]
         /\ btree \in DirTrees(d.inum)
    /\ res = None
    /\ cursor = NewCursor
    /\ ret = [kind |-> "none"]
    /\ IdleExtent
    /\ IdleChunk

ListDir ==
    /\ res = None
    /\ LET r == Iterdir(req.d, btree)
       IN  res' = [kind |-> "iterdir", items |-> r.items, err |-> r.err]
    /\ UNCHANGED <<req, treeVars, extentVars, chunkVars>>

NextDir == ListDir

SpecDir == InitDir /\ [][NextDir]_vars

\* the indexes >= 2 of the DIR_INDEX items of a directory, ascending
DirIndexes(root, inum) ==
    LET ks == LeafKeys(root)
    IN  SortKeys({ks[i] : i \in {j \in 1..Len(ks) : /\ ks[j][1] = inum
                                                     /\ ks[j][2] = BTRFS_DIR_INDEX_KEY
                                                     /\ ks[j][3] >= 2}})

\* an entry is the inode its dir_item names: in the subvolume of d, or the
\* root of the nested subvolume
EntryOf(d, dir_item, e) ==
    /\ e.name = dir_item.name
    /\ e.node.kind = "inode"
    /\ IF dir_item.loctype = "ROOT_ITEM"
       THEN /\ e.node.subvolume.objectid = dir_item.objectid
            /\ e.node = SubvolumeRoot(e.node.subvolume)
       ELSE /\ e.node.subvolume = d.subvolume
            /\ e.node.inum = dir_item.objectid

InSubvolumeOrNestedRoot(d, node) ==
    /\ node.kind = "inode"
    /\ \/ node.subvolume = d.subvolume
       \/ /\ node = SubvolumeRoot(node.subvolume)
          /\ node.subvolume.objectid # d.subvolume.objectid
          /\ node.subvolume.parent.kind = "inode"
          /\ node.subvolume.parent.subvolume = d.subvolume

DotsThenEntries(d, r) ==
    LET idx == DirIndexes(btree, d.inum)
    IN  /\ r.err = ""
        /\ Len(r.items) = 2 + Len(idx)
        /\ r.items[1] = [name |-> ".", node |-> d]
        /\ r.items[2] = [name |-> "..", node |-> IF Truthy(d.parent) THEN d.parent ELSE d]
        /\ \A i \in 1..Len(idx) : EntryOf(d, TreeData(btree, idx[i]), r.items[2 + i])

MaxStreams == 3

SuperBlocks == [magic : {"_BHRfS_M", "garbage"}, fsid : 1..2, generation : 1..2]

RECURSIVE SeqsUpTo(_, _)
SeqsUpTo(S, n) ==
    IF n = 0 THEN {<<>>}
    ELSE LET shorter == SeqsUpTo(S, n - 1)
         IN  shorter \cup { Append(q, x) : q \in {r \in shorter : Len(r) = n - 1}, x \in S }

\* exceptions.py: the classes of the library, all derived from Error
LibraryErrors ==
    {"Error", "FileNotFoundError", "NotAFileError", "NotADirectoryError", "NotASymlinkError"}

\* the first superblock of the list with a bad magic, 0 if there is none
FirstBadMagic(sbs) ==
    IF \E i \in 1..Len(sbs) : sbs[i].magic # "_BHRfS_M"
    THEN CHOOSE i \in 1..Len(sbs) : /\ sbs[i].magic # "_BHRfS_M"
                                    /\ \A j \in 1..(i - 1) : sbs[j].magic = "_BHRfS_M"
    ELSE 0

\* the exception of a list of superblocks with more than one fsid
MixedFsidError == "ValueError"

\* sorted(sb_fhs, key=generation, reverse=True)[0]: the first superblock of
\* the highest generation
NewestSuperBlock(sbs) ==
    sbs[CHOOSE i \in 1..Len(sbs) : /\ \A j \in 1..Len(sbs) : sbs[j].generation <= sbs[i].generation
                                   /\ \A j \in 1..(i - 1) : sbs[j].generation < sbs[i].generation]

\* Btrfs.__init__ up to the choice of the superblock
BtrfsInit(sbs) ==
    IF Len(sbs) = 0 THEN Raised("ValueError")
    ELSE IF FirstBadMagic(sbs) # 0 THEN Raised("Error")
    ELSE IF Cardinality({sbs[i].fsid : i \in 1..Len(sbs)}) > 1 THEN Raised(MixedFsidError)
    ELSE [kind |-> "btrfs", sb |-> NewestSuperBlock(sbs)]

InitOpen ==
    /\ req = [kind |-> "none"]
    /\ res = None
    /\ IdleExtent
    /\ IdleChunk
    /\ IdleTree

OpenFs(sbs) ==
    /\ req.kind = "none"
    /\ req' = [kind |-> "open", sbs |-> sbs]
    /\ res' = BtrfsInit(sbs)
    /\ UNCHANGED <<extentVars, chunkVars, treeVars>>

NextOpen == \E sbs \in SeqsUpTo(SuperBlocks, MaxStreams) : OpenFs(sbs)

SpecOpen == InitOpen /\ [][NextOpen]_vars

MixedFsids(sbs) ==
    /\ \A i \in 1..Len(sbs) : sbs[i].magic = "_BHRfS_M"
    /\ \E i, j \in 1..Len(sbs) : sbs[i].fsid # sbs[j].fsid

\* C13: opening streams whose superblocks do not all carry the same fsid
\* fails with an error of the library's root category (exceptions.Error), as
\* a bad superblock magic does, and produces no filesystem object.
C13_MixedFsidIsLibraryError ==
    req.kind = "open" =>
        /\ FirstBadMagic(req.sbs) # 0 => res.kind = "error" /\ res.err \in LibraryErrors
        /\ MixedFsids(req.sbs) => res.kind = "error" /\ res.err \in LibraryErrors

(***************************************************************************)
(* Claims about the cursor (SpecCursor).                                   *)
(***************************************************************************)
\* a field left out of a query compares as the lowest value
Lowest(x) == IF x = Nil THEN 0 ELSE x

\* the leaf keys of the tree that are >= the query prefix, ascending
KeysAtOrAfter(root, q) ==
    LET ks == LeafKeys(root)
        lo == Key(Lowest(q[1]), Lowest(q[2]), Lowest(q[3]))
    IN  SortKeys({ks[i] : i \in {j \in 1..Len(ks) : ks[j] = lo \/ KeyLess(lo, ks[j])}})

OnLeafItem(c, key) ==
    /\ c.has_index
    /\ c.node.level = 0
    /\ ReadKey(c.node, c.index) = key

\* C14: on a well-formed tree, search(objectid, type, offset) from the root
\* returns True with the cursor on the smallest leaf key of the whole tree
\* that is >= the query prefix when there is one, and False otherwise; also
\* when offset is left out and the items of (objectid, type) span leaves.
C14_SearchFindsSmallestAtOrAfter ==
    ret.kind = "search" =>
        LET after == KeysAtOrAfter(btree, ret.args)
        IN  /\ ret.err = ""
            /\ IF after = <<>> THEN ~ret.flag
               ELSE ret.flag /\ OnLeafItem(cursor, after[1])

\* the same for the queries that give an offset
C14_SearchWithOffset ==
    (ret.kind = "search" /\ ret.args[3] # Nil) =>
        LET after == KeysAtOrAfter(btree, ret.args)
        IN  /\ ret.err = ""
            /\ IF after = <<>> THEN ~ret.flag
               ELSE ret.flag /\ OnLeafItem(cursor, after[1])

\* the leaf keys of (objectid, type) with an offset >= offset, ascending
RunFrom(root, objectid, type, offset) ==
    LET ks == LeafKeys(root)
    IN  SortKeys({ks[i] : i \in {j \in 1..Len(ks) : /\ ks[j][1] = objectid
                                                     /\ ks[j][2] = type
                                                     /\ ks[j][3] >= offset}})

\* C15: on a well-formed tree, iter(o, t, off, ignore_offset=True) on a fresh
\* cursor yields exactly the leaf items of (o, t) with offset >= off, each
\* once and in ascending order, also across leaves and up to the last item
\* of the tree; with ignore_offset=False only the item of key (o, t, off).
C15_IterYieldsRun ==
    (ret.kind = "iter" /\ ret.args[1] # Nil /\ ret.args[2] # Nil /\ ret.args[3] # Nil) =>
        /\ ret.err = ""
        /\ ret.items = IF ret.flag
                       THEN RunFrom(btree, ret.args[1], ret.args[2], ret.args[3])
                       ELSE SelectSeq(RunFrom(btree, ret.args[1], ret.args[2], ret.args[3]),
                                      LAMBDA k : k[3] = ret.args[3])

\* a run of two items or more in a tree of three levels (one item per leaf)
\* that ends with the last item of the tree, not started at its first offset
C15_Witness ==
    /\ ret.kind = "iter"
    /\ ret.flag
    /\ ret.args[3] > 0
    /\ btree.level = 2
    /\ Len(ret.items) >= 2
    /\ ret.items[Len(ret.items)] = LeafKeys(btree)[Len(LeafKeys(btree))]
    /\ \E i \in 1..Len(LeafKeys(btree)) :
         /\ LeafKeys(btree)[i][1] = ret.args[1]
         /\ LeafKeys(btree)[i][2] = ret.args[2]
         /\ LeafKeys(btree)[i][3] < ret.args[3]

\* the number of leaf items under the children of a branch left of child j
RECURSIVE LeavesBefore(_, _)
LeavesBefore(node, j) ==
    IF j <= 1 THEN 0 ELSE LeavesBefore(node, j - 1) + Len(LeafKeys(node.ptrs[j - 1]))

RECURSIVE CursorTo(_, _)
\* the cursor that went down from c to the leaf item of rank i (from 0) under
\* c.node, through the child that holds the item at every level
CursorTo(c, i) ==
    IF c.node.level = 0 THEN [c EXCEPT !.index = i]
    ELSE LET j == CHOOSE j \in 1..Len(c.node.ptrs) :
                     /\ LeavesBefore(c.node, j) <= i
                     /\ i < LeavesBefore(c.node, j) + Len(LeafKeys(c.node.ptrs[j]))
         IN  CursorTo(CursorPush([c EXCEPT !.index = j - 1], c.node.ptrs[j], 0),
                      i - LeavesBefore(c.node, j))

\* the cursor on the leaf item of rank i (from 0) of the tree
CursorAtItem(root, i) == CursorTo(CursorReset(root), i)

\* the rank of the leaf item a cursor stands on, 0 - 1 when it stands on none
RankOf(root, c) ==
    IF \E i \in 0..(Len(LeafKeys(root)) - 1) : c = CursorAtItem(root, i)
    THEN CHOOSE i \in 0..(Len(LeafKeys(root)) - 1) : c = CursorAtItem(root, i)
    ELSE 0 - 1

Matching(root, q) ==
    SelectSeq(LeafKeys(root), LAMBDA k : CmpKey(k, q[1], q[2], q[3]) = 0)

\* C16: first() stands on the first leaf item; next() on the leaf item of
\* rank i stands on the item of rank i + 1, and raises the end-of-tree
\* signal (ValueError) on the last one, whatever the height of the tree;
\* walk yields every leaf item that matches its filter once, in key order,
\* and terminates.
C16_NextVisitsAllInOrder ==
    /\ ret.kind = "first" => ret.err = "" /\ cursor = CursorAtItem(btree, 0)
    /\ (ret.kind = "next" /\ RankOf(btree, ret.was) >= 0) =>
          IF RankOf(btree, ret.was) + 1 < Len(LeafKeys(btree))
          THEN ret.err = "" /\ cursor = CursorAtItem(btree, RankOf(btree, ret.was) + 1)
          ELSE ret.err = "ValueError"
    /\ ret.kind = "walk" => ret.err = "" /\ ret.items = Matching(btree, ret.args)

\* next() on the last item of a tree of three levels, reached from the item
\* before it in another leaf
C16_Witness ==
    /\ ret.kind = "next"
    /\ ret.err = "ValueError"
    /\ btree.level = 2
    /\ ret.was = CursorAtItem(btree, Len(LeafKeys(btree)) - 1)
    /\ ret.was.index = 0

\* C17: push(address, -1) puts the index on the last item of the pushed node
\* (nritems - 1, a valid item index), so last() leaves the cursor on the
\* last leaf item of the tree and item() and get() return that item.
C17_LastOnLastItem ==
    ret.kind = "last" =>
        /\ ret.err = ""
        /\ cursor.index = Len(cursor.node.keys) - 1
        /\ OnLeafItem(cursor, LeafKeys(btree)[Len(LeafKeys(btree))])

\* C18: prev() on a leaf item that is not the first of the tree stands on
\* the item before it in key order, also across a leaf boundary (so next()
\* followed by prev() returns to the same item); on the first item it raises
\* the start-of-tree signal (ValueError).
C18_PrevMirrorsNext ==
    (ret.kind = "prev" /\ RankOf(btree, ret.was) >= 0) =>
        IF RankOf(btree, ret.was) > 0
        THEN ret.err = "" /\ OnLeafItem(cursor, LeafKeys(btree)[RankOf(btree, ret.was)])
        ELSE ret.err = "ValueError"

\* the same for the moves that stay inside one leaf
C18_PrevInsideLeaf ==
    (ret.kind = "prev" /\ RankOf(btree, ret.was) >= 0 /\ ret.was.index > 0) =>
        ret.err = "" /\ cursor = CursorAtItem(btree, RankOf(btree, ret.was) - 1)

(***************************************************************************)
(* SpecLayout: chunks are added at several logical offsets of a stream     *)
(* with all devices, and the logical address space is read, the gaps       *)
(* between the chunks included.                                            *)
(***************************************************************************)
InitLayout ==
    /\ devices = DeviceIds
    /\ chunks = <<>>
    /\ chunk_offsets = <<>>
    /\ addResult = "none"
    /\ openFailed = FALSE
    /\ rd = [kind |-> "none"]
    /\ IdleExtent
    /\ IdlePath
    /\ IdleTree

LayoutReadOffsets == 0..(3 * StripesPerChunk + 1)
LayoutReadLengths == {1, StripeLen + 1, 3 * StripeLen}

NextLayout ==
    \/ NextChunk
    \/ \E offset \in LayoutReadOffsets, length \in LayoutReadLengths :
         chunks # <<>> /\ ReadAt(offset, length)

SpecLayout == InitLayout /\ [][NextLayout]_vars

ByteOf(chunk, chunk_offset) == StripeRead(chunk, chunk_offset, 1).bytes[1]

\* C20: every byte a read returns for a logical address a at or above the
\* offset of the first chunk is the byte of an installed chunk c with
\* c.offset <= a < c.offset + c.length at the in-chunk offset a - c.offset;
\* an address in a gap between two chunks is not served from a neighbour.
C20_BytesFromCoveringChunk ==
    (rd.kind = "read" /\ rd.result.err = "") =>
        \A i \in 1..Len(rd.result.bytes) :
            LET a == rd.offset + i - 1
            IN  a >= chunks[1].offset =>
                  \E j \in 1..Len(chunks) :
                      /\ CoveredBy(chunks[j], a)
                      /\ rd.result.bytes[i] = ByteOf(chunks[j], a - chunks[j].offset)

\* the same for the reads that touch no gap
C20_CoveredReads ==
    (rd.kind = "read" /\ rd.result.err = ""
       /\ \A a \in rd.offset..(rd.offset + rd.length - 1) :
            (a >= chunks[1].offset /\ a < chunks[Len(chunks)].offset + chunks[Len(chunks)].length)
              => \E j \in 1..Len(chunks) : CoveredBy(chunks[j], a)) =>
        \A i \in 1..Len(rd.result.bytes) :
            LET a == rd.offset + i - 1
            IN  a >= chunks[1].offset =>
                  \E j \in 1..Len(chunks) :
                      /\ CoveredBy(chunks[j], a)
                      /\ rd.result.bytes[i] = ByteOf(chunks[j], a - chunks[j].offset)

\* C21: a read that starts below the lowest chunk returns a zero byte for
\* every address below the offset of that chunk, followed by the data of the
\* chunk for the rest of the range; a range that runs past the end of the
\* last chunk returns the bytes up to that end only, and raises nothing.
C21_ZerosBelowShortReadAbove ==
    rd.kind = "read" =>
        LET last == chunks[Len(chunks)].offset + chunks[Len(chunks)].length
        IN  /\ rd.result.err = ""
            /\ Len(rd.result.bytes) = Max(Min(rd.offset + rd.length, last) - rd.offset, 0)
            /\ \A i \in 1..Len(rd.result.bytes) :
                 LET a == rd.offset + i - 1
                 IN  /\ a < chunks[1].offset => rd.result.bytes[i] = ZeroByte
                     /\ \A j \in 1..Len(chunks) :
                            CoveredBy(chunks[j], a) =>
                              rd.result.bytes[i] = ByteOf(chunks[j], a - chunks[j].offset)

\* one read that starts below the only chunk and runs past its end: a zero
\* byte, the whole chunk, and nothing more
C21_Witness ==
    /\ rd.kind = "read"
    /\ Len(chunks) = 1
    /\ rd.offset = chunks[1].offset - 1
    /\ rd.offset + rd.length > chunks[1].offset + chunks[1].length
    /\ Len(rd.result.bytes) = chunks[1].length + 1
    /\ rd.result.bytes[1] = ZeroByte
    /\ rd.result.bytes[2] = ByteOf(chunks[1], 0)

\* The profile of a chunk
IsSingle(chunk) == ~HasFlag(chunk.type, BTRFS_BLOCK_GROUP_PROFILE_MASK)
IsMirrored(chunk) == HasFlag(chunk.type, BTRFS_BLOCK_GROUP_RAID1_MASK \cup {"DUP"})
IsRaid56(chunk) == HasFlag(chunk.type, BTRFS_BLOCK_GROUP_RAID56_MASK)

\* The stripe table at chunk offset off; single_div is the number of stripes
\* that the stripes of a SINGLE chunk are counted over
StripeTable(chunk, off, single_div) ==
    LET sn   == off \div chunk.stripe_length
        info == StripeReadInfo(chunk, off)
        ds   == (chunk.num_stripes
                   - BTRFS_RAID_ATTRIBUTES(chunk.type \cap BTRFS_BLOCK_GROUP_PROFILE_MASK)[2])
                \div BTRFS_RAID_ATTRIBUTES(chunk.type \cap BTRFS_BLOCK_GROUP_PROFILE_MASK)[1]
    IN  /\ IsRaid56(chunk) /\ ds = 0 => info.err = "ZeroDivisionError"
        /\ info.err = "" =>
            /\ IsSingle(chunk) =>
                 /\ info.stripe_idx = sn % single_div
                 /\ info.stripe_num = sn \div single_div
                 /\ info.stripe_remaining = chunk.length - off
            /\ IsMirrored(chunk) =>
                 /\ info.stripe_idx = 0
                 /\ info.stripe_num = sn
                 /\ info.stripe_remaining = chunk.length - off
            /\ HasFlag(chunk.type, {"RAID0"}) =>
                 /\ info.stripe_idx = sn % chunk.num_stripes
                 /\ info.stripe_num = sn \div chunk.num_stripes
            /\ IsRaid56(chunk) /\ ds > 0 =>
                 /\ info.stripe_num = sn \div ds
                 /\ info.stripe_idx = ((sn \div ds) + (sn % ds)) % chunk.num_stripes
            /\ HasFlag(chunk.type, BTRFS_BLOCK_GROUP_STRIPE_MASK) =>
                 /\ info.stripe_remaining = chunk.stripe_length - (off % chunk.stripe_length)
                 /\ info.stripe_remaining <= chunk.stripe_length

\* A read that starts inside the chunk and raised nothing took its first byte
\* from stripe.offset + (off mod stripe_length) + stripe_num * stripe_length
ReadAddress ==
    rd.kind = "read" /\ chunks /= <<>> /\ CoveredBy(chunks[1], rd.offset)
                     /\ rd.result.err = "" =>
        LET off == rd.offset - chunks[1].offset
        IN  /\ rd.result.bytes /= <<>>
            /\ rd.result.bytes[1][4] =
                 (off % chunks[1].stripe_length)
                   + StripeReadInfo(chunks[1], off).stripe_num * chunks[1].stripe_length

\* C22 (as stated): for every chunk offset, _get_stripe_read_info follows the
\* stripe table: SINGLE, RAID1, RAID1C3, RAID1C4 and DUP give stripe index 0,
\* stripe number sn and the rest of the chunk; RAID0 gives sn mod num_stripes
\* and sn div num_stripes; RAID5/6 give sn div data_stripes and the rotated
\* index; the striped profiles give the rest of the stripe; the device address
\* is stripe.offset + off mod stripe_length + stripe_num * stripe_length.
C22_StripeTable ==
    /\ \A i \in 1..Len(chunks) : \A off \in 0..(chunks[i].length - 1) :
          StripeTable(chunks[i], off, 1)
    /\ ReadAddress

\* C22 (amended): the same table, but a chunk without a profile flag is
\* striped over its num_stripes stripes like RAID0 (index sn mod num_stripes,
\* number sn div num_stripes); index 0 and number sn is the case of one stripe.
C22_StripeTableSingleStriped ==
    /\ \A i \in 1..Len(chunks) : \A off \in 0..(chunks[i].length - 1) :
          StripeTable(chunks[i], off, chunks[i].num_stripes)
    /\ ReadAddress

\* a read at the start of the second stripe row of a RAID5 chunk of three stripes: the
\* rotated index is not 0 and the stripe number is 1
C22_Witness ==
    /\ rd.kind = "read"
    /\ chunks /= <<>>
    /\ HasFlag(chunks[1].type, {"RAID5"})
    /\ chunks[1].num_stripes = 3
    /\ rd.offset - chunks[1].offset = 2 * StripeLen
    /\ rd.result.err = ""
    /\ StripeReadInfo(chunks[1], rd.offset - chunks[1].offset).stripe_num = 1
    /\ StripeReadInfo(chunks[1], rd.offset - chunks[1].offset).stripe_idx = 1
    /\ rd.result.bytes[1][4] = StripeLen

\* C23: for a RAID10 chunk the stripe selected for chunk offset off lies in
\* mirror group g = (off div stripe_length) mod (num_stripes div sub_stripes),
\* i.e. its index is in [g * sub_stripes, (g + 1) * sub_stripes), with
\* stripe_num = (off div stripe_length) div (num_stripes div sub_stripes); two
\* offsets with different data never resolve to the same mirror group and
\* device address.
C23_Raid10MirrorGroup ==
    rd.kind = "read" /\ chunks /= <<>> /\ HasFlag(chunks[1].type, {"RAID10"})
                     /\ CoveredBy(chunks[1], rd.offset) /\ rd.result.err = ""
                     /\ ChunkMissing(chunks[1]) = {} =>
        LET chunk  == chunks[1]
            off    == rd.offset - chunk.offset
            sn     == off \div chunk.stripe_length
            factor == chunk.num_stripes \div chunk.sub_stripes
            g      == sn % factor
            info   == StripeReadInfo(chunk, off)
        IN  /\ g * chunk.sub_stripes <= info.stripe_idx
            /\ info.stripe_idx < (g + 1) * chunk.sub_stripes
            /\ info.stripe_num = sn \div factor
            /\ rd.result.bytes[1][3] = g
            /\ \A other \in 0..(chunk.length - 1) :
                 ByteOf(chunk, other) = rd.result.bytes[1] => other = off

(***************************************************************************)
(* SpecExtentList: the inodes of SpecExtent, and the same inodes with one  *)
(* more REG item of num_bytes 0 at a key offset no other item has          *)
(***************************************************************************)
\* a REG item that maps no bytes
EmptyItem(koff) == MakeItem(MaxItems + 1, koff, 0, "reg")

\* the key offset of an item put after the first k items
KeyOffsetAfter(items, k) == IF k = 0 THEN 0 ELSE ItemEnd(items[k])

EmptyExtentInodes ==
    { [size |-> t[1].size,
       items |-> InsertAt(t[1].items, t[2], EmptyItem(KeyOffsetAfter(t[1].items, t[2])))] :
        t \in { u \in RegularInodes \X (0..MaxItems) :
                  /\ u[2] <= Len(u[1].items)
                  /\ KeyOffsetAfter(u[1].items, u[2]) < u[1].size
                  /\ u[2] < Len(u[1].items) =>
                        u[1].items[u[2] + 1].koff > KeyOffsetAfter(u[1].items, u[2]) } }

InitExtentList ==
    /\ inode \in Inodes \cup EmptyExtentInodes
    /\ stream = NoStream
    /\ pos = 0
    /\ out = <<>>
    /\ IdleChunk
    /\ IdlePath
    /\ IdleTree

SpecExtentList == InitExtentList /\ [][NextExtent]_vars

\* The byte of extent e at position rel inside the extent
ByteOfExtent(e, rel) ==
    IF e.disk_offset = 0 /\ e.disk_length = 0 THEN ZeroByte
    ELSE IF e.compression = BTRFS_COMPRESS_NONE /\ e.encryption = 0
         THEN LogicalByte(e.disk_offset + e.offset + rel)
         ELSE DecodedByte(e.disk_offset, e.offset + rel)

\* Every byte read so far comes from the extent that holds its file position
BytesFromHoldingExtent ==
    stream.kind = "extent" /\ stream.err = "" =>
        \A p \in 0..(Len(out) - 1) :
            \E k \in 1..Len(stream.extents) :
                /\ ExtentStart(stream.extents, k) <= p
                /\ p < ExtentStart(stream.extents, k) + stream.extents[k].length
                /\ out[p + 1] = ByteOfExtent(stream.extents[k], p - ExtentStart(stream.extents, k))

\* C24: every byte at file position p < size of an ExtentStream is taken from
\* the extent k with s_k <= p < s_k + e_k.length (s_k the sum of the lengths
\* before e_k): a zero byte of a sparse extent, the byte at logical address
\* disk_offset + offset + (p - s_k) of an uncompressed one, byte
\* offset + (p - s_k) of the decoded extent of a compressed one; also for
\* lists that hold extents of length 0.
C24_BytesFromHoldingExtent ==
    /\ BytesFromHoldingExtent
    /\ ReadDone /\ stream.kind = "extent" /\ stream.err = "" => Len(out) = stream.size

\* The same for the lists without an extent of length 0
C24_WithoutEmptyExtents ==
    (\A k \in 1..Len(stream.extents) : stream.extents[k].length > 0) =>
        C24_BytesFromHoldingExtent

\* The places of the extent list that hold the record of item i at the file
\* position of its key offset
RecordPlaces(i) ==
    {k \in 1..Len(stream.extents) :
        /\ stream.extents[k] = ItemExtent(inode.items[i])
        /\ ExtentStart(stream.extents, k) = inode.items[i].koff}

\* Every item of one of the types has exactly one record, in key order
RecordsInKeyOrder(types) ==
    LET idx == {i \in 1..Len(inode.items) : inode.items[i].type \in types}
    IN  /\ \A i \in idx : Cardinality(RecordPlaces(i)) = 1
        /\ \A i, j \in idx : i < j =>
              \A k \in RecordPlaces(i), l \in RecordPlaces(j) : k < l

\* C25 (as stated): in the extent list open() builds for a non-inline inode,
\* every REG item and every PREALLOC item contributes exactly one extent
\* record, in key order.
C25_RegAndPreallocRecords ==
    stream.kind = "extent" => RecordsInKeyOrder({REG, PREALLOC})

\* C25 (amended): every REG item contributes exactly one extent record, in key
\* order; a PREALLOC item contributes none: every extent of the list is the
\* record of a REG item or a sparse extent.
C25_RegRecordsOnly ==
    stream.kind = "extent" =>
        /\ RecordsInKeyOrder({REG})
        /\ \A k \in 1..Len(stream.extents) :
              \/ \E i \in RegIndexes(inode.items) : k \in RecordPlaces(i)
              \/ stream.extents[k] = SparseExtent(stream.extents[k].length)
        /\ \A i \in 1..Len(inode.items) :
              inode.items[i].type = PREALLOC =>
                \A k \in 1..Len(stream.extents) :
                    stream.extents[k].disk_offset /= inode.items[i].disk_bytenr

\* a PREALLOC item before a REG item: the list holds a sparse extent over the
\* preallocated range and the record of the REG item
C25_Witness ==
    /\ stream.kind = "extent"
    /\ Len(inode.items) = 2
    /\ inode.items[1].type = PREALLOC
    /\ inode.items[2].type = REG
    /\ inode.items[2].disk_bytenr /= 0
    /\ stream.extents[1] = SparseExtent(inode.items[2].koff)
    /\ stream.extents[2] = ItemExtent(inode.items[2])

\* C26: for every chunk add() accepted, the failover loop of a read ends: from
\* the selected stripe it reaches a stripe with a device in fewer than
\* num_stripes steps, or raises for RAID5/6; it never runs forever, whatever
\* the profile and num_stripes of the chunk.
C26_FailoverTerminates ==
    rd.kind = "read" /\ chunks /= <<>> /\ CoveredBy(chunks[1], rd.offset)
                     /\ StripeReadInfo(chunks[1], rd.offset - chunks[1].offset).err = "" =>
        LET chunk == chunks[1]
            info  == StripeReadInfo(chunk, rd.offset - chunk.offset)
            f     == Failover(chunk, info.stripe_idx, 0)
        IN  /\ rd.result.err /= "hang"
            /\ f.err /= "hang"
            /\ f.err = "NotImplementedError" => IsRaid56(chunk)
            /\ f.err = "" =>
                 /\ chunk.stripes[(f.idx % chunk.num_stripes) + 1].fh
                 /\ f.idx - info.stripe_idx < chunk.num_stripes

\* The same for the chunks with a stripe on a present device
C26_WithPresentStripe ==
    (chunks /= <<>> /\ ChunkMissing(chunks[1]) /= 1..Len(chunks[1].stripes)) =>
        C26_FailoverTerminates

(***************************************************************************)
(* SpecSearch: one cursor on a tree, which may be the empty tree (a root   *)
(* leaf with nritems = 0); search and iter are called wherever the cursor  *)
(* stands, between resets and next().  Nothing follows a call that does    *)
(* not return.                                                             *)
(***************************************************************************)
\* the root leaf of a tree without items
EmptyTree == [level |-> 0, keys |-> <<>>, ptrs |-> <<>>]

InitSearch ==
    /\ btree \in WellFormedTrees \cup {EmptyTree}
    /\ cursor = CursorReset(btree)
    /\ ret = Returned("init", <<>>, FALSE, <<>>, "", NewCursor)
    /\ IdleExtent
    /\ IdleChunk
    /\ IdlePath

\* the last call returned or raised
Returns == ret.err /= "hang"

\* cursor.search(objectid, type, offset) on the cursor as it stands
SearchFrom(q) ==
    /\ Returns
    /\ LET s == CursorSearch(cursor, q[1], q[2], q[3])
       IN  /\ cursor' = s.c
           /\ ret' = Returned("search", q, s.found, <<>>, s.err, cursor)
    /\ UNCHANGED <<btree, extentVars, chunkVars, pathVars>>

\* list(cursor.iter(objectid, type, offset)) on the cursor as it stands
IterFrom(q) ==
    /\ Returns
    /\ LET r == CursorIter(cursor, q[1], q[2], q[3], FALSE)
       IN  /\ cursor' = r.c
           /\ ret' = Returned("iter", q, FALSE, r.items, r.err, cursor)
    /\ UNCHANGED <<btree, extentVars, chunkVars, pathVars>>

NextSearch ==
    \/ Returns /\ DoReset
    \/ Returns /\ DoNext
    \/ \E q \in Queries : SearchFrom(q)
    \/ \E q \in Queries : IterFrom(q)

SpecSearch == InitSearch /\ [][NextSearch]_vars

\* C27: Cursor.search ends on every finite tree and returns True or False,
\* also when a node it visits holds no items (the empty root leaf of an empty
\* tree).
C27_SearchTerminates ==
    ret.kind = "search" => ret.err = "" /\ ret.flag \in BOOLEAN

\* The same for the trees whose nodes all hold items, on a cursor that
\* stands on a node
C27_OnNonEmptyNodes ==
    btree /= EmptyTree /\ ret.kind = "search" /\ ret.was.node /= NoNode =>
        C27_SearchTerminates

\* C29: the result of Cursor.search does not depend on where the cursor stood:
\* search(k) on a cursor that a search, iter or next() has moved returns the
\* same boolean and leaves the same position as search(k) on a fresh cursor.
C29_SearchIgnoresPosition ==
    ret.kind = "search" /\ ret.err = "" =>
        LET fresh == CursorSearch(CursorReset(btree), ret.args[1], ret.args[2], ret.args[3])
        IN  /\ ret.flag = fresh.found
            /\ cursor = fresh.c

\* The same for the searches of a cursor that stands at the root
C29_FromRoot ==
    ret.kind = "search" /\ ret.was = CursorReset(btree) /\ Len(ret.was.path) = 1 =>
        C29_SearchIgnoresPosition

(***************************************************************************)
(* SpecLookup: the requests of SpecPath, with the B-tree searches that the *)
(* outer get makes: res is [node, finds], a find is the tree that was      *)
(* searched and the directory inode whose entry was looked for             *)
(***************************************************************************)
RECURSIVE GetFinds(_, _, _, _, _)
\* `for part in parts`: the calls subvolume.tree.find(node.inum, ...)
GetFinds(self, parts, i, node, subvolume) ==
    IF node.kind = "error" \/ i > Len(parts) THEN <<>>
    ELSE IF parts[i] = "" \/ parts[i] = "."
    THEN GetFinds(self, parts, i + 1, node, subvolume)
    ELSE IF parts[i] = ".."
    THEN GetFinds(self, parts, i + 1, IF Truthy(node.parent) THEN node.parent ELSE node,
                  subvolume)
    ELSE Only({ IF dir.kind = "error" THEN <<>>
                ELSE Only({ <<[tree |-> subvolume.objectid, dir |-> dir]>>
                            \o (IF found = {} THEN <<>>
                                ELSE Only({ GetFinds(self, parts, i + 1, next.node, next.subvolume)
                                            : next \in {FollowDirItem(Only(found), subvolume)} }))
                            : found \in {TreeFind(subvolume.objectid, dir.inum,
                                                  NameHash(parts[i]))} })
                : dir \in {ResolveLinks(node)} })

\* Subvolume.get(path, node) with its searches
GetTraced(self, parts, node) ==
    [kind  |-> "lookups",
     node  |-> Get(self, parts, node),
     finds |-> GetFinds(self, parts, 1, IF Truthy(node) THEN node ELSE SubvolumeRoot(self), self)]

\* fs.get(path)
LookupPath(path) ==
    /\ req' = [kind |-> "get", path |-> path]
    /\ res' = GetTraced(Subvolume(BTRFS_FS_TREE_OBJECTID, None), path, None)
    /\ UNCHANGED <<extentVars, chunkVars, treeVars>>

\* fs.get(b, fs.get(a))
LookupFrom(a, b) ==
    /\ req' = [kind |-> "get_from", a |-> a, b |-> b]
    /\ res' = Only({ IF base.kind = "error" THEN base
                     ELSE GetTraced(Subvolume(BTRFS_FS_TREE_OBJECTID, None), b, base)
                     : base \in {BtrfsGet(a, None)} })
    /\ UNCHANGED <<extentVars, chunkVars, treeVars>>

\* fs.get(a).get(b)
LookupInode(a, b) ==
    /\ req' = [kind |-> "inode_get", a |-> a, b |-> b]
    /\ res' = Only({ IF base.kind = "error" THEN base
                     ELSE GetTraced(base.subvolume, b, base)
                     : base \in {BtrfsGet(a, None)} })
    /\ UNCHANGED <<extentVars, chunkVars, treeVars>>

\* get changes nothing in the filesystem object: a behaviour is one request
NextLookup ==
    /\ req.kind = "none"
    /\ \/ \E path \in Paths(MaxPath) : LookupPath(path)
       \/ \E a \in BasePaths, b \in Paths(MaxRel) : LookupFrom(a, b)
       \/ \E a \in BasePaths, b \in Paths(MaxRel) : LookupInode(a, b)

SpecLookup == InitPath /\ [][NextLookup]_vars

\* C28: at every directory lookup inside Subvolume.get the tree that is
\* searched is the tree of the subvolume that owns the current node, also after
\* "..", after a symlink was resolved into another subvolume, and when the
\* base node belongs to another subvolume.
C28_SearchedTreeOwnsNode ==
    res.kind = "lookups" =>
        \A k \in 1..Len(res.finds) :
            res.finds[k].tree = res.finds[k].dir.subvolume.objectid

\* The same for get(path) on paths of names that are no symlinks
C28_WithoutLinks ==
    (req.kind = "get" /\ \A k \in 1..Len(req.path) : req.path[k] \in {"d", "f", "sub", "y", ".."})
        => C28_SearchedTreeOwnsNode

(***************************************************************************)
(* SpecChunkAny: the adds of SpecChunk in any order, for records of any    *)
(* placement: a record may reach into a chunk installed above it           *)
(***************************************************************************)
NextChunkAny ==
    \E offset \in AddOffsets, c \in LayoutRecords : Add(offset, c, Len(chunks) < MaxChunks)

SpecChunkAny == InitChunk /\ [][NextChunkAny]_vars

\* chunks is sorted strictly ascending by offset and _chunk_offsets mirrors it
SortedAndIndexed ==
    /\ Len(chunks) = Len(chunk_offsets)
    /\ \A i \in 1..Len(chunks) : chunks[i].offset = chunk_offsets[i]
    /\ \A i, j \in 1..Len(chunks) : i < j => chunks[i].offset < chunks[j].offset

\* C30: after any sequence of add() calls, successful or failing, the chunks
\* are sorted strictly ascending by logical offset, chunks[i].offset ==
\* _chunk_offsets[i] for every i, and the ranges [offset, offset + length) of
\* any two installed chunks are disjoint.
C30_SortedDisjointChunks ==
    /\ SortedAndIndexed
    /\ \A i, j \in 1..Len(chunks) :
          i < j => chunks[i].offset + chunks[i].length <= chunks[j].offset

\* The order and the mirror alone, after any sequence of adds
C30_SortedAndIndexed == addResult /= "none" => SortedAndIndexed


=============================================================================
